---------------------------- MODULE Spec2Model ----------------------------
(***************************************************************************)
(* Horus: dependency-manifest parsing (app/services/parser).               *)
(*                                                                         *)
(* Text is modelled as a sequence of one-character strings, so that the    *)
(* string operations of the parser (splitlines, strip, startswith,         *)
(* substring tests and the regular expressions) are computed character by  *)
(* character as Python computes them.                                      *)
(***************************************************************************)
EXTENDS Integers, Sequences, FiniteSets, TLC

VARIABLES
    pc,            \* position of the caller: start, created, loop, returned, failed, raised
    file_type_token, \* the file-type token create_parser was called with
    parser_class,  \* class of the parser instance create_parser returned
    file_content,  \* DependencyParser.file_content of that instance
    error,         \* the exception create_parser raised, if any
    lines,         \* parse(): self.file_content.splitlines()
    idx,           \* parse(): index of the line the for loop is at
    dependencies,  \* parse(): the local list `dependencies`
    origin,        \* history: for each element of `dependencies`, the line it came from
    result,        \* the value the last parse() call returned
    prevResult,    \* history: the value the parse() call before that returned
    calls,         \* number of parse() calls started
    ctor_args,     \* the arguments PackageDependency(...) was called with
    ctor_out,      \* what that call yielded: the object, or the exception raised
    scan_pc,       \* position of a manual scan request: idle, rejected, authorized,
                   \*   called, lookups, returned, raised, cancelled, responded
    payload,       \* the DependencyFilePayload of the request
    parsed,        \* scan: the dependency list the parser returned
    unique,        \* scan: the deduplicated dependency list
    slots,         \* scan: per deduplicated dependency, the state of its lookup
    scan_result,   \* the ScanResult scan_dependencies returned
    failed_lookups, \* the failure count exposed alongside the ScanResult
    scan_error,    \* the exception scan_dependencies raised, if any
    cancel_signal, \* whether the caller's cancellation signal has fired
    background_tasks, \* the tasks manual_scan added to BackgroundTasks
    response,      \* what manual_scan answered: a body, or an HTTPException
    x_api_key,     \* the X-API-Key header of the scan request
    API_KEY,       \* settings.API_KEY as get_api_key read it
    hook_pc,       \* position of a GitHub webhook request: idle, done
    x_hub_signature_256, \* the X-Hub-Signature-256 header of that request
    request_body,  \* the raw body of that request
    GITHUB_WEBHOOK_SECRET, \* settings.GITHUB_WEBHOOK_SECRET as the check read it
    hook_out,      \* what verify_github_webhook yielded: True, or the exception raised
    environ,       \* Settings(): the values the environment provides, by field
    next_field,    \* Settings(): index of the field validated next, 0 before the call
    values,        \* Settings(): the fields validated so far, with their values
    field_errors,  \* Settings(): the fields whose validation failed
    users,         \* the rows of table "users"
    sessions       \* per register request: its position, its input and its locals

parserVars == << pc, file_type_token, parser_class, file_content, error, lines, idx,
                 dependencies, origin, result, prevResult, calls >>

modelVars == << ctor_args, ctor_out >>

scanVars == << scan_pc, payload, parsed, unique, slots, scan_result, failed_lookups,
               scan_error, cancel_signal, background_tasks, response >>

securityVars == << x_api_key, API_KEY >>

hookVars == << hook_pc, x_hub_signature_256, request_body, GITHUB_WEBHOOK_SECRET,
               hook_out >>

settingsVars == << environ, next_field, values, field_errors >>

registerVars == << users, sessions >>

\* the variables of the request guards, of Settings and of register
otherVars == << securityVars, hookVars, settingsVars, registerVars >>

vars == << parserVars, modelVars, scanVars, otherVars >>

-----------------------------------------------------------------------------
(* Bounds of the model *)

\* physical lines of a multi-line manifest
MaxLines == 2
\* tokens of the version-constraint text of a generated requirement line
MaxConstraintTokens == 4
\* parse() calls made on parsers built from one text
MaxParseCalls == 2
\* lines of a manifest submitted for a scan
MaxScanLines == 3
\* retries of a lookup after a TransientError (the orchestrator's fixed bound)
MaxRetries == 2
\* lookups the orchestrator keeps in flight at once
MaxConcurrent == 2
\* hexadecimal digits of a signature digest
DigestHexChars == 2
\* register requests in flight at once
MaxRequests == 2

-----------------------------------------------------------------------------
(* Characters and character classes *)

Lower == { "a", "b", "c", "d", "e", "f", "g", "h", "i", "j", "k", "l", "m",
           "n", "o", "p", "q", "r", "s", "t", "u", "v", "w", "x", "y", "z" }

Upper == { "A", "B", "C", "D", "E", "F", "G", "H", "I", "J", "K", "L", "M",
           "N", "O", "P", "Q", "R", "S", "T", "U", "V", "W", "X", "Y", "Z" }

Digits == { "0", "1", "2", "3", "4", "5", "6", "7", "8", "9" }

\* the regex class [a-zA-Z0-9_.-]
NameChars == Lower \cup Upper \cup Digits \cup { "_", ".", "-" }

\* what str.strip() removes and the regex \s matches
Whitespace == { " ", "\t", "\n", "\r", "\f" }

\* the line boundaries of str.splitlines() that the modelled alphabet contains
LineBreaks == { "\n", "\r", "\f" }

-----------------------------------------------------------------------------
(* String operations *)

RECURSIVE Cat(_)
\* concatenation of a sequence of texts
Cat(parts) ==
    IF parts = << >> THEN << >> ELSE Head(parts) \o Cat(Tail(parts))

\* text[i..] begins with p
StartsWithAt(text, i, p) ==
    /\ i + Len(p) - 1 <= Len(text)
    /\ SubSeq(text, i, i + Len(p) - 1) = p

\* str.startswith(p)
StartsWith(text, p) == StartsWithAt(text, 1, p)

\* str.endswith(p)
EndsWith(text, p) ==
    /\ Len(p) <= Len(text)
    /\ SubSeq(text, Len(text) - Len(p) + 1, Len(text)) = p

\* p in text
Contains(text, p) ==
    \E i \in 1 .. (Len(text) - Len(p) + 1) : StartsWithAt(text, i, p)

RECURSIVE RunEnd(_, _, _)
\* the last index of the longest run of characters of class that starts at i
\* (i - 1 when text[i] is not in class): a greedy [class]* from i
RunEnd(text, i, class) ==
    IF i <= Len(text) /\ text[i] \in class
    THEN RunEnd(text, i + 1, class)
    ELSE i - 1

\* text[i..]
From(text, i) == SubSeq(text, i, Len(text))

RECURSIVE LastNonSpace(_, _)
LastNonSpace(text, j) ==
    IF j >= 1 /\ text[j] \in Whitespace THEN LastNonSpace(text, j - 1) ELSE j

\* str.strip()
Strip(text) ==
    LET first == RunEnd(text, 1, Whitespace) + 1
        last  == LastNonSpace(text, Len(text))
    IN  IF first > last THEN << >> ELSE SubSeq(text, first, last)

RECURSIVE FirstBreak(_, _)
\* index of the first line boundary at or after i, Len(text) + 1 if none
FirstBreak(text, i) ==
    IF i <= Len(text) /\ text[i] \notin LineBreaks
    THEN FirstBreak(text, i + 1)
    ELSE i

RECURSIVE Splitlines(_)
\* str.splitlines(): the lines without their boundaries, "\r\n" one boundary,
\* no empty last line after a final boundary
Splitlines(text) ==
    IF text = << >> THEN << >>
    ELSE LET k    == FirstBreak(text, 1)
             skip == IF /\ k < Len(text)
                        /\ text[k] = "\r"
                        /\ text[k + 1] = "\n"
                     THEN 2 ELSE 1
         IN  IF k > Len(text)
             THEN << text >>
             ELSE << SubSeq(text, 1, k - 1) >> \o Splitlines(From(text, k + skip))

-----------------------------------------------------------------------------
(* Regular expressions of pip.py *)

NoMatch == [ matched |-> FALSE, group1 |-> << >>, group2 |-> << >> ]

RECURSIVE SearchFromStar(_, _, _, _)
\* SearchFrom with ([a-zA-Z0-9_.-]*) for the group: an empty value matches
SearchFromStar(literal, text, i, spaces) ==
    IF i + Len(literal) - 1 > Len(text) THEN NoMatch
    ELSE LET after == i + Len(literal)
             start == IF spaces THEN RunEnd(text, after, Whitespace) + 1 ELSE after
             stop  == RunEnd(text, start, NameChars)
         IN  IF StartsWithAt(text, i, literal)
             THEN [ matched |-> TRUE,
                    group1  |-> SubSeq(text, start, stop),
                    group2  |-> << >> ]
             ELSE SearchFromStar(literal, text, i + 1, spaces)

RECURSIVE SearchFrom(_, _, _, _)
\* leftmost match at or after i of: literal \s* ([a-zA-Z0-9_.-]+)
\* (spaces TRUE) or of: literal ([a-zA-Z0-9_.-]+) (spaces FALSE)
SearchFrom(literal, text, i, spaces) ==
    IF i + Len(literal) - 1 > Len(text) THEN NoMatch
    ELSE LET after == i + Len(literal)
             start == IF spaces THEN RunEnd(text, after, Whitespace) + 1 ELSE after
             stop  == RunEnd(text, start, NameChars)
         IN  IF StartsWithAt(text, i, literal) /\ stop >= start
             THEN [ matched |-> TRUE,
                    group1  |-> SubSeq(text, start, stop),
                    group2  |-> << >> ]
             ELSE SearchFrom(literal, text, i + 1, spaces)

\* re.search(op + r'\s*([a-zA-Z0-9_.-]+)', text)
SearchConstraint(op, text) == SearchFrom(op, text, 1, TRUE)

EggFragment == << "#", "e", "g", "g", "=" >>

\* re.search(r'#egg=([a-zA-Z0-9_.-]+)', line)
SearchEgg(line) == SearchFrom(EggFragment, line, 1, FALSE)

\* re.match(r'^([a-zA-Z0-9_.-]+)(?:\[[a-zA-Z0-9_.-]+\])?(.*)$', line)
MatchSpec(line) ==
    LET nameEnd == RunEnd(line, 1, NameChars)
        exEnd   == RunEnd(line, nameEnd + 2, NameChars)
        extras  == /\ nameEnd + 1 <= Len(line)
                   /\ line[nameEnd + 1] = "["
                   /\ exEnd >= nameEnd + 2
                   /\ exEnd + 1 <= Len(line)
                   /\ line[exEnd + 1] = "]"
        rest    == IF extras THEN exEnd + 2 ELSE nameEnd + 1
    IN  IF nameEnd < 1 THEN NoMatch
        ELSE [ matched |-> TRUE,
               group1  |-> SubSeq(line, 1, nameEnd),
               group2  |-> From(line, rest) ]

-----------------------------------------------------------------------------
(* Canonical dependency model (app/models/dependency.py) *)

\* the values of the enum PackageEcosystem
PackageEcosystem ==
    { "PyPI", "npm", "Composer", "Maven", "NuGet", "RubyGems", "Cargo", "Go", "Other" }

\* the values of the enum DependencyFileType
DependencyFileType ==
    { "requirements.txt", "poetry.lock", "Pipfile.lock", "package.json",
      "package-lock.json", "yarn.lock", "composer.json", "composer.lock",
      "Gemfile", "Gemfile.lock", "Cargo.lock", "go.mod", "go.sum" }

\* outcomes of a step that yields a dependency, nothing, or an exception
NoneValue == [ kind |-> "none" ]
Raised(exception) == [ kind |-> "raise", exception |-> exception ]

\* PackageDependency(name=..., version=..., ecosystem=..., is_dev_dependency=...):
\* the fields are typed str, str, PackageEcosystem, bool; pydantic rejects a
\* value that is no member of the enum
PackageDependency(name, version, ecosystem, is_dev_dependency) ==
    IF ecosystem \notin PackageEcosystem
    THEN Raised("ValidationError")
    ELSE [ kind  |-> "dep",
           value |-> [ name              |-> name,
                       version           |-> version,
                       ecosystem         |-> ecosystem,
                       is_dev_dependency |-> is_dev_dependency ] ]

\* DependencyFileContent(file_type=..., dependencies=...)
DependencyFileContent(file_type, deps) ==
    [ file_type |-> file_type, dependencies |-> deps ]

-----------------------------------------------------------------------------
(* RequirementsTxtParser (app/services/parser/pip.py) *)

REQUIREMENTS_TXT == "requirements.txt"
PYPI == "PyPI"

Unknown == << "u", "n", "k", "n", "o", "w", "n" >>
Latest  == << "l", "a", "t", "e", "s", "t" >>

GitPlus == << "g", "i", "t", "+" >>
Http    == << "h", "t", "t", "p", ":", "/", "/" >>
Https   == << "h", "t", "t", "p", "s", ":", "/", "/" >>

OpEq    == << "=", "=" >>
OpGe    == << ">", "=" >>
OpGt    == << ">" >>
OpLe    == << "<", "=" >>
OpLt    == << "<" >>
OpCompat == << "~", "=" >>

\* IsUrlSpec with 'http://' left out of the prefix list
IsUrlSpecNoHttp(line) ==
    Contains(line, GitPlus) \/ Contains(line, Https)

\* any(prefix in line for prefix in ['git+', 'http://', 'https://'])
IsUrlSpec(line) ==
    Contains(line, GitPlus) \/ Contains(line, Http) \/ Contains(line, Https)

\* one branch of the elif chain: the operator concatenated with the value the
\* search finds, and "latest" kept when the search finds none
Constrained(op, version_constraints) ==
    LET match == SearchConstraint(op, version_constraints)
    IN  IF match.matched THEN op \o match.group1 ELSE Latest

\* ParseVersion with the '>' branch tested before the '>=' branch
ParseVersionGtFirst(version_constraints) ==
    LET exact_match == SearchConstraint(OpEq, version_constraints)
    IN  IF version_constraints = << >> THEN Latest
        ELSE IF exact_match.matched THEN exact_match.group1
        ELSE IF Contains(version_constraints, OpGt)
             THEN Constrained(OpGt, version_constraints)
        ELSE IF Contains(version_constraints, OpGe)
             THEN Constrained(OpGe, version_constraints)
        ELSE IF Contains(version_constraints, OpLe)
             THEN Constrained(OpLe, version_constraints)
        ELSE IF Contains(version_constraints, OpLt)
             THEN Constrained(OpLt, version_constraints)
        ELSE IF Contains(version_constraints, OpCompat)
             THEN Constrained(OpCompat, version_constraints)
        ELSE Latest

\* the version _parse_package derives from the text after the name
ParseVersion(version_constraints) ==
    LET exact_match == SearchConstraint(OpEq, version_constraints)
    IN  IF version_constraints = << >> THEN Latest
        ELSE IF exact_match.matched THEN exact_match.group1
        ELSE IF Contains(version_constraints, OpGe)
             THEN Constrained(OpGe, version_constraints)
        ELSE IF Contains(version_constraints, OpGt)
             THEN Constrained(OpGt, version_constraints)
        ELSE IF Contains(version_constraints, OpLe)
             THEN Constrained(OpLe, version_constraints)
        ELSE IF Contains(version_constraints, OpLt)
             THEN Constrained(OpLt, version_constraints)
        ELSE IF Contains(version_constraints, OpCompat)
             THEN Constrained(OpCompat, version_constraints)
        ELSE Latest

\* ParsePackage without the test `if not match: return None`: match.group(1)
\* of a failed match raises AttributeError
ParsePackageUnguarded(line) ==
    IF IsUrlSpec(line)
    THEN LET match == SearchEgg(line)
         IN  IF match.matched
             THEN PackageDependency(match.group1, Unknown, PYPI, FALSE)
             ELSE NoneValue
    ELSE LET match == MatchSpec(line)
         IN  IF ~match.matched
             THEN Raised("AttributeError")
             ELSE PackageDependency(match.group1,
                                    ParseVersion(Strip(match.group2)),
                                    PYPI, FALSE)

\* RequirementsTxtParser._parse_package(line)
ParsePackage(line) ==
    IF IsUrlSpec(line)
    THEN LET match == SearchEgg(line)
         IN  IF match.matched
             THEN PackageDependency(match.group1, Unknown, PYPI, FALSE)
             ELSE NoneValue
    ELSE LET match == MatchSpec(line)
         IN  IF ~match.matched
             THEN NoneValue
             ELSE PackageDependency(match.group1,
                                    ParseVersion(Strip(match.group2)),
                                    PYPI, FALSE)

\* the option prefixes the loop skips
SkippedOptions ==
    { << "-", "r" >>, << "-", "f" >>, << "-", "i" >>,
      << "-", "-", "r", "e", "q", "u", "i", "r", "e", "m", "e", "n", "t" >>,
      << "-", "-", "f", "i", "n", "d", "-", "l", "i", "n", "k", "s" >>,
      << "-", "-", "i", "n", "d", "e", "x", "-", "u", "r", "l" >> }

Hash      == << "#" >>
Backslash == << "\\" >>
Editable  == << "-", "e" >>

\* IsBlankOrComment without the test for '#'
IsBlankOnly(stripped) == stripped = << >>

\* if not line or line.startswith('#'), for the stripped line
IsBlankOrComment(stripped) == stripped = << >> \/ StartsWith(stripped, Hash)

\* if line.endswith('\\'): line = line[:-1].strip()
DropContinuation(line) ==
    IF EndsWith(line, Backslash) THEN Strip(SubSeq(line, 1, Len(line) - 1)) ELSE line

\* IsSkippedOption with the line compared to the options instead of its start
IsSkippedOptionExact(line) == line \in SkippedOptions

\* line.startswith(('-r', '-f', '-i', '--requirement', '--find-links', '--index-url'))
IsSkippedOption(line) == \E p \in SkippedOptions : StartsWith(line, p)

\* if line.startswith('-e'): line = line[2:].strip()
DropEditable(line) ==
    IF StartsWith(line, Editable) THEN Strip(From(line, 3)) ELSE line

\* the body of the for loop of parse() for one physical line: the package to
\* append, NoneValue when the line is skipped or yields no package
ProcessLine(raw) ==
    LET stripped == Strip(raw)
        line     == DropContinuation(stripped)
    IN  IF IsBlankOrComment(stripped) THEN NoneValue
        ELSE IF IsSkippedOption(line) THEN NoneValue
        ELSE ParsePackage(DropEditable(line))

\* NewDependencies with the list kept between calls
KeptDependencies(previous) == previous

\* dependencies = []
NewDependencies(previous) == << >>

\* ListAppend with the item put in front
ListPrepend(list, item) == << item >> \o list

\* dependencies.append(package)
ListAppend(list, item) == Append(list, item)

RECURSIVE ParseLines(_)
\* the list the for loop of parse() builds from the lines ls
ParseLines(ls) ==
    IF ls = << >> THEN << >>
    ELSE LET package == ProcessLine(Head(ls))
         IN  IF package.kind = "dep"
             THEN << package.value >> \o ParseLines(Tail(ls))
             ELSE ParseLines(Tail(ls))

-----------------------------------------------------------------------------
(* ParserFactory (app/services/parser/base.py) *)

\* parser_map: the parser class registered for a file type. The class
\* PoetryLockParser is imported from app/services/parser/poetry, whose import
\* is taken to succeed.
ParserMap ==
    [ t \in { "requirements.txt", "poetry.lock" } |->
        IF t = "requirements.txt" THEN "RequirementsTxtParser" ELSE "PoetryLockParser" ]

NoError == [ type |-> "none", message |-> "" ]

\* raise ValueError(f"Unsupported file type: {file_type}")
UnsupportedFileType == [ type |-> "ValueError", message |-> "Unsupported file type" ]

\* raise ValueError(f"No parser available for file type: {file_type}")
NoParserAvailable ==
    [ type |-> "ValueError", message |-> "No parser available for file type" ]

\* IsFileTypeValue with the member looked up by value or by name
IsFileTypeValueOrName(file_type) ==
    file_type \in DependencyFileType \cup { "REQUIREMENTS_TXT" }

\* DependencyFileType(file_type): the member with that value, ValueError if none
IsFileTypeValue(file_type) == file_type \in DependencyFileType

\* FactoryOutcome with one error for every token that yields no parser
FactoryOutcomeOneError(file_type) ==
    IF ~IsFileTypeValue(file_type) \/ file_type \notin DOMAIN ParserMap
    THEN [ error |-> UnsupportedFileType, class |-> "none" ]
    ELSE [ error |-> NoError, class |-> ParserMap[file_type] ]

\* ParserFactory.create_parser(file_type, file_content): the exception raised
\* (NoError if none) and the class instantiated ("none" if none)
FactoryOutcome(file_type) ==
    IF ~IsFileTypeValue(file_type)
    THEN [ error |-> UnsupportedFileType, class |-> "none" ]
    ELSE IF file_type \notin DOMAIN ParserMap
    THEN [ error |-> NoParserAvailable, class |-> "none" ]
    ELSE [ error |-> NoError, class |-> ParserMap[file_type] ]

-----------------------------------------------------------------------------
(* Inputs *)

\* file-type tokens a caller passes: the enum values, and strings that are not
\* (an unknown name, the empty string, an enum member's name, other letter case,
\* a value with a trailing blank)
FileTypeTokens ==
    DependencyFileType \cup
    { "xyz", "", "REQUIREMENTS_TXT", "Requirements.txt", "gemfile", "requirements.txt " }

\* all sequences over S of length at most n
SeqsUpTo(S, n) == UNION { [ 1 .. k -> S ] : k \in 0 .. n }

\* the pieces a version-constraint text is put together from
ConstraintTokens ==
    { OpEq, OpGe, OpGt, OpLe, OpLt, OpCompat, << "1" >>, << " " >> }

ConstraintTexts == { Cat(ts) : ts \in SeqsUpTo(ConstraintTokens, MaxConstraintTokens) }

\* requirement lines: a name followed by a constraint text
RequirementLines == { << "a" >> \o c : c \in ConstraintTexts }

LinePrefixes ==
    { << >>, << " " >>, << "#" >>, << "#", " " >>,
      << "-", "e", " " >>, << "-", "e" >>,
      << "-", "r", " " >>, << "-", "f" >>, << "-", "i", " " >>,
      << "-", "-", "r", "e", "q", "u", "i", "r", "e", "m", "e", "n", "t", " " >>,
      << "-", "-", "f", "i", "n", "d", "-", "l", "i", "n", "k", "s", " " >>,
      << "-", "-", "i", "n", "d", "e", "x", "-", "u", "r", "l", " " >>,
      << "-", "c", " " >>, << "-", "-" >> }

LineBodies ==
    { << >>, << "a" >>, << "B", "-", "2" >>,
      << "a", "=", "=", "1", ".", "0" >>,
      << "a", "[", "x", "]", ">", "=", "1" >>,
      << "a", ">", "=", "1", ".", "0", ",", "<", "2" >>,
      << "a", "<", "2", ";", "p", ">", "=", "'", "3", "'" >>,
      << "a", " ", "[", "x", "]" >>,
      << "a", "[", "]", "<", "1" >>,
      << "=", "=", "1" >>,
      GitPlus \o << "x" >>,
      GitPlus \o << "x", "#", "e", "g", "g", "=", "a" >>,
      Http \o << "x", "#", "e", "g", "g", "=", "b", ".", "c", " ", "d" >>,
      Https \o << "x", "#", "e", "g", "g", "=" >>,
      Https \o << "x" >>,
      << "a", "#", "e", "g", "g", "=", "b" >> }

LineSuffixes == { << >>, << "\\" >>, << " ", "\\" >>, << " " >>, << "\t" >> }

\* lines with an option, comment or editable prefix, a URL, extras, a
\* continuation marker
SpecialLines ==
    { p \o b \o s : p \in LinePrefixes, b \in LineBodies, s \in LineSuffixes }

\* the lines multi-line manifests are put together from
BasicLines ==
    { << >>,
      << "a" >>, << "a", "=", "=", "1" >>, << " ", "b", ">", "=", "2", " " >>,
      << "a", "=", "=", "\\" >>, << "=", "=", "1" >>,
      << "#", "a" >>, << " ", "#" >> \o GitPlus \o << "#", "e", "g", "g", "=", "c" >>,
      << "-", "r", " ", "a" >>, << "-", "e", " ", "a" >>,
      GitPlus \o << "#", "e", "g", "g", "=", "b" >>,
      << "[", "x", "]" >> }

\* how a manifest is written: the boundary between its lines, and what
\* follows its last line
Terminators ==
    { << << "\n" >>, << >> >>, << << "\n" >>, << "\n" >> >>,
      << << "\r", "\n" >>, << "\r", "\n" >> >>, << << "\r" >>, << >> >> }

RECURSIVE JoinLines(_, _)
\* the lines ls, each but the last followed by the boundary nl
JoinLines(ls, nl) ==
    IF ls = << >> THEN << >>
    ELSE IF Len(ls) = 1 THEN ls[1]
    ELSE ls[1] \o nl \o JoinLines(Tail(ls), nl)

MultiLineManifests ==
    { JoinLines(ls, nl[1]) \o nl[2] :
        ls \in UNION { [ 1 .. k -> BasicLines ] : k \in 1 .. MaxLines },
        nl \in Terminators }

\* the manifest texts a parser is built from
Manifests == RequirementLines \cup SpecialLines \cup MultiLineManifests

-----------------------------------------------------------------------------
(* The state machine *)

NoResult == [ file_type |-> "none", dependencies |-> << >> ]

\* no PackageDependency(...) call has been made
ModelIdle ==
    /\ ctor_args = NoneValue
    /\ ctor_out = NoneValue

\* no scan has been requested
ScanIdle ==
    /\ scan_pc = "idle"
    /\ payload = NoneValue
    /\ parsed = << >>
    /\ unique = << >>
    /\ slots = << >>
    /\ scan_result = NoneValue
    /\ failed_lookups = 0
    /\ scan_error = NoError
    /\ cancel_signal = FALSE
    /\ background_tasks = << >>
    /\ response = NoneValue

\* no scan request has been checked for its API key
SecurityIdle ==
    /\ x_api_key = NoneValue
    /\ API_KEY = NoneValue

\* no GitHub webhook request has arrived
HookIdle ==
    /\ hook_pc = "idle"
    /\ x_hub_signature_256 = NoneValue
    /\ request_body = << >>
    /\ GITHUB_WEBHOOK_SECRET = NoneValue
    /\ hook_out = NoneValue

\* Settings() has not been called
SettingsIdle ==
    /\ environ = NoneValue
    /\ next_field = 0
    /\ values = { }
    /\ field_errors = { }

\* table "users" is empty and no register request has arrived
RegisterIdle ==
    /\ users = << >>
    /\ sessions = [ r \in 1 .. MaxRequests |-> [ pc |-> "idle" ] ]

Init ==
    /\ pc = "start"
    /\ file_type_token = ""
    /\ parser_class = "none"
    /\ file_content = << >>
    /\ error = NoError
    /\ lines = << >>
    /\ idx = 0
    /\ dependencies = << >>
    /\ origin = << >>
    /\ result = NoResult
    /\ prevResult = NoResult
    /\ calls = 0
    /\ ModelIdle
    /\ ScanIdle
    /\ SecurityIdle
    /\ HookIdle
    /\ SettingsIdle
    /\ RegisterIdle

\* ParserFactory.create_parser(file_type, content), which ends in an exception
\* or in parser_class(file_content), that is DependencyParser.__init__
CreateParser ==
    /\ pc = "start"
    /\ \E token \in FileTypeTokens, content \in Manifests :
           LET out == FactoryOutcome(token)
           IN  /\ file_type_token' = token
               /\ error' = out.error
               /\ parser_class' = out.class
               /\ pc' = IF out.class = "none" THEN "failed" ELSE "created"
               /\ file_content' = IF out.class = "none" THEN file_content ELSE content
    /\ UNCHANGED << lines, idx, dependencies, origin, result, prevResult, calls >>
    /\ UNCHANGED << modelVars, scanVars >>
    /\ UNCHANGED otherVars

\* a second parser built from the text of the first: DependencyParser.__init__
NewInstance ==
    /\ pc = "returned"
    /\ calls < MaxParseCalls
    /\ pc' = "created"
    /\ file_content' = file_content
    /\ UNCHANGED << file_type_token, parser_class, error, lines, idx, dependencies,
                    origin, result, prevResult, calls >>
    /\ UNCHANGED << modelVars, scanVars >>
    /\ UNCHANGED otherVars

\* RequirementsTxtParser.parse() is called: up to the head of the for loop
ParseCall ==
    /\ pc \in { "created", "returned" }
    /\ parser_class = "RequirementsTxtParser"
    /\ calls < MaxParseCalls
    /\ calls' = calls + 1
    /\ prevResult' = result
    /\ dependencies' = NewDependencies(dependencies)
    /\ origin' = NewDependencies(origin)
    /\ lines' = Splitlines(file_content)
    /\ idx' = 1
    /\ pc' = "loop"
    /\ UNCHANGED << file_type_token, parser_class, file_content, error, result >>
    /\ UNCHANGED << modelVars, scanVars >>
    /\ UNCHANGED otherVars

\* one iteration of the for loop of parse()
ParseLine ==
    /\ pc = "loop"
    /\ idx <= Len(lines)
    /\ LET package == ProcessLine(lines[idx])
       IN  IF package.kind = "raise"
           THEN /\ pc' = "raised"
                /\ error' = [ type |-> package.exception, message |-> "" ]
                /\ UNCHANGED << idx, dependencies, origin >>
           ELSE /\ pc' = "loop"
                /\ idx' = idx + 1
                /\ error' = error
                /\ IF package.kind = "dep"
                   THEN /\ dependencies' = ListAppend(dependencies, package.value)
                        /\ origin' = ListAppend(origin, idx)
                   ELSE UNCHANGED << dependencies, origin >>
    /\ UNCHANGED << file_type_token, parser_class, file_content, lines, result,
                    prevResult, calls >>
    /\ UNCHANGED << modelVars, scanVars >>
    /\ UNCHANGED otherVars

\* the loop is over: return DependencyFileContent(file_type=..., dependencies=...)
ParseReturn ==
    /\ pc = "loop"
    /\ idx > Len(lines)
    /\ result' = DependencyFileContent(REQUIREMENTS_TXT, dependencies)
    /\ pc' = "returned"
    /\ UNCHANGED << file_type_token, parser_class, file_content, error, lines, idx,
                    dependencies, origin, prevResult, calls >>
    /\ UNCHANGED << modelVars, scanVars >>
    /\ UNCHANGED otherVars

Next ==
    \/ CreateParser
    \/ NewInstance
    \/ ParseCall
    \/ ParseLine
    \/ ParseReturn

Spec == Init /\ [][Next]_vars

-----------------------------------------------------------------------------
(* Construction of the canonical model (app/models/dependency.py) *)

\* names a caller constructs a dependency with: empty, blank, one and three letters
DependencyNames == { << >>, << " " >>, << "a" >>, << "r", "e", "q" >> }

\* versions a caller constructs a dependency with
DependencyVersions == { << >>, << "1", ".", "0" >>, Latest }

\* ecosystem values a caller passes: the enum values, and strings that are not
\* (other letter case, a member's name, the empty string, an unknown name)
EcosystemTokens == PackageEcosystem \cup { "pypi", "PYPI", "", "Unknown" }

\* PackageDependency(name=..., version=..., ecosystem=..., is_dev_dependency=...)
\* is evaluated by some caller
Construct ==
    /\ ctor_args = NoneValue
    /\ \E name \in DependencyNames, version \in DependencyVersions,
          ecosystem \in EcosystemTokens, is_dev_dependency \in BOOLEAN :
           /\ ctor_args' = [ kind              |-> "call",
                             name              |-> name,
                             version           |-> version,
                             ecosystem         |-> ecosystem,
                             is_dev_dependency |-> is_dev_dependency ]
           /\ ctor_out' = PackageDependency(name, version, ecosystem, is_dev_dependency)
    /\ UNCHANGED << parserVars, scanVars >>
    /\ UNCHANGED otherVars

ModelNext == Construct

ModelSpec == Init /\ [][ModelNext]_vars

-----------------------------------------------------------------------------
(* Vulnerability lookup client (spec 4.4; app/services/scanner/osv.py) *)

\* severity tiers of a vulnerability
Severities == { "LOW", "MEDIUM", "HIGH", "CRITICAL" }

\* the advisories of the vulnerability database, in its order: a source-assigned
\* id and a severity
Advisories ==
    << [ id |-> "CVE-1", severity |-> "HIGH" ], [ id |-> "CVE-2", severity |-> "LOW" ] >>

\* the Vulnerability the client returns for an advisory that affects the
\* dependency: the advisory with the affected-package entry of that lookup
Vulnerability(advisory, dependency) ==
    [ id                |-> advisory.id,
      severity          |-> advisory.severity,
      affected_packages |-> << [ name      |-> dependency.name,
                                 ecosystem |-> dependency.ecosystem,
                                 version   |-> dependency.version ] >> ]

RECURSIVE Sublist(_, _, _)
\* the elements of seq from index i on whose index is in keep, in order
Sublist(seq, keep, i) ==
    IF i > Len(seq) THEN << >>
    ELSE (IF i \in keep THEN << seq[i] >> ELSE << >>) \o Sublist(seq, keep, i + 1)

\* the lists a successful lookup(dependency) can return, NotFound being the
\* empty list: any of the advisories, in the order of the database
LookupResults(dependency) ==
    LET all == [ i \in 1 .. Len(Advisories) |-> Vulnerability(Advisories[i], dependency) ]
    IN  { Sublist(all, keep, 1) : keep \in SUBSET (1 .. Len(Advisories)) }

\* the slot of a dependency no lookup has been dispatched for
PendingSlot ==
    [ state |-> "pending", attempts |-> 0, errors |-> << >>, vulnerabilities |-> << >> ]

-----------------------------------------------------------------------------
(* Scan orchestrator (spec 4.5 and 5; app/services/scanner/osv.py) *)

\* raised when the caller cancels a scan in progress
ScanCancelled == [ type |-> "ScanCancelled", message |-> "" ]

\* the identity of a dependency
Identity(dependency) ==
    << dependency.name, dependency.version, dependency.ecosystem >>

\* Deduplicate without the deduplication
DeduplicateNone(deps) == deps

RECURSIVE Deduplicate(_)
\* step 2: the dependencies of deps with a new (name, version, ecosystem),
\* in the order of their first occurrence
Deduplicate(deps) ==
    IF deps = << >> THEN << >>
    ELSE LET front == Deduplicate(SubSeq(deps, 1, Len(deps) - 1))
             last  == deps[Len(deps)]
         IN  IF \E i \in 1 .. Len(front) : Identity(front[i]) = Identity(last)
             THEN front
             ELSE Append(front, last)

RECURSIVE Extend(_, _)
\* the list `into` followed by the elements of `from` it does not hold yet
Extend(into, from) ==
    IF from = << >> THEN into
    ELSE Extend(IF \E i \in 1 .. Len(into) : into[i] = Head(from)
                THEN into
                ELSE Append(into, Head(from)),
                Tail(from))

\* MergeOne without the comparison of ids
MergeOneAppend(merged, vulnerability) == Append(merged, vulnerability)

\* step 5, for one returned vulnerability: a new id is appended; a known id
\* keeps its entry, which takes the affected packages it did not carry yet
MergeOne(merged, vulnerability) ==
    IF \E i \in 1 .. Len(merged) : merged[i].id = vulnerability.id
    THEN [ i \in 1 .. Len(merged) |->
             IF merged[i].id = vulnerability.id
             THEN [ merged[i] EXCEPT !.affected_packages =
                        Extend(@, vulnerability.affected_packages) ]
             ELSE merged[i] ]
    ELSE Append(merged, vulnerability)

RECURSIVE MergeList(_, _)
\* step 5, for the list one lookup returned
MergeList(merged, vulnerabilities) ==
    IF vulnerabilities = << >> THEN merged
    ELSE MergeList(MergeOne(merged, Head(vulnerabilities)), Tail(vulnerabilities))

RECURSIVE Merge(_)
\* step 5: the vulnerabilities of the slots ss whose lookup succeeded, merged
\* in the order of the slots
Merge(ss) ==
    IF ss = << >> THEN << >>
    ELSE LET front == Merge(SubSeq(ss, 1, Len(ss) - 1))
             last  == ss[Len(ss)]
         IN  IF last.state = "done" THEN MergeList(front, last.vulnerabilities) ELSE front

RECURSIVE Returned(_)
\* every vulnerability a successful lookup of the slots ss returned, unmerged
Returned(ss) ==
    IF ss = << >> THEN << >>
    ELSE (IF Head(ss).state = "done" THEN Head(ss).vulnerabilities ELSE << >>)
         \o Returned(Tail(ss))

\* BySeverity counting what the lookups returned instead of the merged list
BySeverityReturned(vulnerabilities) ==
    [ tier \in Severities |->
        Cardinality({ i \in 1 .. Len(Returned(slots)) :
                        Returned(slots)[i].severity = tier }) ]

\* step 6: the number of vulnerabilities of the list per severity tier
BySeverity(vulnerabilities) ==
    [ tier \in Severities |->
        Cardinality({ i \in 1 .. Len(vulnerabilities) :
                        vulnerabilities[i].severity = tier }) ]

\* the number of slots whose lookup was recorded as failed
FailedCount(ss) == Cardinality({ i \in 1 .. Len(ss) : ss[i].state = "failed" })

\* step 7: the ScanResult of a scan whose lookups ended as the slots ss say
BuildScanResult(request, deps, ss) ==
    LET vulnerabilities == Merge(ss)
    IN  [ kind                        |-> "ScanResult",
          repository                  |-> request.repository,
          branch                      |-> request.branch,
          dependencies_count          |-> Len(deps),
          vulnerabilities             |-> vulnerabilities,
          vulnerabilities_by_severity |-> BySeverity(vulnerabilities),
          has_vulnerabilities         |-> Len(vulnerabilities) > 0 ]

-----------------------------------------------------------------------------
(* Manual scan requests (app/api/routes/scan.py) and the steps of a scan *)

\* a requirements file that repeats lines: two versions of one package and
\* another package
ScanFile ==
    << << "a", "=", "=", "1" >>, << "a", "=", "=", "1" >>, << "a", "=", "=", "2" >>,
       << "b" >>, << "b" >> >>

\* the manifests submitted: up to MaxScanLines consecutive lines of ScanFile,
\* each ended by a newline
ScanManifests ==
    { JoinLines(SubSeq(ScanFile, w[1], w[1] + w[2] - 1), << "\n" >>)
          \o (IF w[2] = 0 THEN << >> ELSE << "\n" >>) :
        w \in { v \in (1 .. Len(ScanFile)) \X (0 .. MaxScanLines) :
                   v[1] + v[2] - 1 <= Len(ScanFile) } }

\* the file-type tokens submitted: one with a parser under src/, a file type
\* without a parser, and a token that is no file type
ScanFileTypes == { "requirements.txt", "Gemfile", "xyz" }

\* the DependencyFilePayload values submitted
Payloads ==
    [ kind         : { "payload" },
      repository   : { "owner/repo" },
      branch       : { "main" },
      commit_sha   : { "abc123" },
      file_type    : ScanFileTypes,
      file_content : ScanManifests ]

\* a str value, as opposed to None
Str(s) == [ kind |-> "str", value |-> s ]

\* raise HTTPException(status_code=..., detail=...)
HTTPException(status_code, detail) ==
    [ kind |-> "HTTPException", status_code |-> status_code, detail |-> detail ]

\* the X-API-Key header of a scan request: absent, empty, or a key
ApiKeyHeaders == { NoneValue, Str(""), Str("k1"), Str("k2"), Str("K1") }

\* the values API_KEY may be configured with
ApiKeys == { Str("k1"), Str("") }

\* api_key_header = APIKeyHeader(name="X-API-Key", auto_error=False): what the
\* scheme hands to get_api_key, which is the header's value, and None when
\* the request has no such header or an empty one
api_key_header(header) ==
    IF header = NoneValue \/ header.value = "" THEN NoneValue ELSE header

\* get_api_key with its comparison against settings.API_KEY left out
GetApiKeyPresentOnly ==
    /\ scan_pc = "idle"
    /\ \E header \in ApiKeyHeaders, key \in ApiKeys :
           LET api_key == api_key_header(header)
           IN  /\ x_api_key' = header
               /\ API_KEY' = key
               /\ IF api_key = NoneValue
                   THEN /\ response' = HTTPException(401, "API Key header is missing")
                        /\ scan_pc' = "rejected"
                   ELSE /\ scan_pc' = "authorized"
                        /\ UNCHANGED response
    /\ UNCHANGED << payload, parsed, unique, slots, scan_result, failed_lookups,
                    scan_error, cancel_signal, background_tasks >>
    /\ UNCHANGED << parserVars, modelVars, hookVars, settingsVars, registerVars >>

\* the dependency of manual_scan, get_api_key(api_key = Security(api_key_header)),
\* which FastAPI resolves before it calls manual_scan: an HTTPException it
\* raises is the answer to the request, and manual_scan is not called
GetApiKey ==
    /\ scan_pc = "idle"
    /\ \E header \in ApiKeyHeaders, key \in ApiKeys :
           LET api_key == api_key_header(header)
           IN  /\ x_api_key' = header
               /\ API_KEY' = key
               /\ IF api_key = NoneValue
                   THEN /\ response' = HTTPException(401, "API Key header is missing")
                        /\ scan_pc' = "rejected"
                   ELSE IF api_key # key
                   THEN /\ response' = HTTPException(403, "Invalid API Key")
                        /\ scan_pc' = "rejected"
                   ELSE /\ scan_pc' = "authorized"
                        /\ UNCHANGED response
    /\ UNCHANGED << payload, parsed, unique, slots, scan_result, failed_lookups,
                    scan_error, cancel_signal, background_tasks >>
    /\ UNCHANGED << parserVars, modelVars, hookVars, settingsVars, registerVars >>

\* manual_scan is called and awaits scan_dependencies(repository=..., branch=...,
\* commit_sha=..., file_type=..., file_content=...)
ManualScanCall ==
    /\ scan_pc = "authorized"
    /\ \E request \in Payloads : payload' = request
    /\ scan_pc' = "called"
    /\ UNCHANGED << parsed, unique, slots, scan_result, failed_lookups, scan_error,
                    background_tasks, response >>
    /\ UNCHANGED << parserVars, modelVars, cancel_signal >>
    /\ UNCHANGED otherVars

\* steps 1 and 2 of a scan: the parser is resolved and invoked, a failure of
\* the factory aborts the scan; the parsed list is deduplicated and every
\* dependency left gets a slot
ScanParse ==
    /\ scan_pc = "called"
    /\ LET out == FactoryOutcome(payload.file_type)
       IN  IF out.class = "none"
           THEN /\ scan_pc' = "raised"
                /\ scan_error' = out.error
                /\ UNCHANGED << parsed, unique, slots >>
           ELSE LET deps == ParseLines(Splitlines(payload.file_content))
                IN  /\ parsed' = deps
                    /\ unique' = Deduplicate(deps)
                    /\ slots' = [ i \in 1 .. Len(Deduplicate(deps)) |-> PendingSlot ]
                    /\ scan_pc' = "lookups"
                    /\ scan_error' = scan_error
    /\ UNCHANGED << payload, scan_result, failed_lookups, background_tasks, response >>
    /\ UNCHANGED << parserVars, modelVars, cancel_signal >>
    /\ UNCHANGED otherVars

\* the lookups in flight
InFlight == { i \in 1 .. Len(slots) : slots[i].state = "in_flight" }

\* step 3: a lookup of dependency i is dispatched, for the first time or as a
\* retry, when fewer than MaxConcurrent lookups are in flight
Dispatch(i) ==
    /\ scan_pc = "lookups"
    /\ slots[i].state = "pending"
    /\ Cardinality(InFlight) < MaxConcurrent
    /\ slots' = [ slots EXCEPT ![i].state = "in_flight", ![i].attempts = @ + 1 ]
    /\ UNCHANGED << scan_pc, payload, parsed, unique, scan_result, failed_lookups,
                    scan_error, background_tasks, response >>
    /\ UNCHANGED << parserVars, modelVars, cancel_signal >>
    /\ UNCHANGED otherVars

\* the lookup of dependency i returns a list of vulnerabilities (NotFound:
\* the empty list), which goes into the slot of the dependency
LookupReturns(i) ==
    /\ scan_pc = "lookups"
    /\ slots[i].state = "in_flight"
    /\ \E found \in LookupResults(unique[i]) :
           slots' = [ slots EXCEPT ![i].state = "done", ![i].vulnerabilities = found ]
    /\ UNCHANGED << scan_pc, payload, parsed, unique, scan_result, failed_lookups,
                    scan_error, background_tasks, response >>
    /\ UNCHANGED << parserVars, modelVars, cancel_signal >>
    /\ UNCHANGED otherVars

\* LookupTransientError with the failure recorded at once, no retry
LookupTransientErrorNoRetry(i) ==
    /\ scan_pc = "lookups"
    /\ slots[i].state = "in_flight"
    /\ slots' = [ slots EXCEPT ![i].state = "failed",
                               ![i].errors = Append(@, "TransientError") ]
    /\ UNCHANGED << scan_pc, payload, parsed, unique, scan_result, failed_lookups,
                    scan_error, background_tasks, response >>
    /\ UNCHANGED << parserVars, modelVars, cancel_signal >>
    /\ UNCHANGED otherVars

\* step 4: the lookup of dependency i ends with TransientError (a lookup that
\* exceeds its timeout counts as one): it is retried, up to MaxRetries times,
\* and recorded as failed after that
LookupTransientError(i) ==
    /\ scan_pc = "lookups"
    /\ slots[i].state = "in_flight"
    /\ slots' = [ slots EXCEPT
                    ![i].state = IF slots[i].attempts <= MaxRetries
                                 THEN "pending" ELSE "failed",
                    ![i].errors = Append(@, "TransientError") ]
    /\ UNCHANGED << scan_pc, payload, parsed, unique, scan_result, failed_lookups,
                    scan_error, background_tasks, response >>
    /\ UNCHANGED << parserVars, modelVars, cancel_signal >>
    /\ UNCHANGED otherVars

\* step 4: the lookup of dependency i ends with FatalError: recorded as
\* failed, not retried
LookupFatalError(i) ==
    /\ scan_pc = "lookups"
    /\ slots[i].state = "in_flight"
    /\ slots' = [ slots EXCEPT ![i].state = "failed",
                               ![i].errors = Append(@, "FatalError") ]
    /\ UNCHANGED << scan_pc, payload, parsed, unique, scan_result, failed_lookups,
                    scan_error, background_tasks, response >>
    /\ UNCHANGED << parserVars, modelVars, cancel_signal >>
    /\ UNCHANGED otherVars

\* Cancel with the result of the lookups completed so far returned
CancelReturnsPartial ==
    /\ scan_pc = "lookups"
    /\ scan_result' = BuildScanResult(payload, unique, slots)
    /\ failed_lookups' = FailedCount(slots)
    /\ scan_pc' = "returned"
    /\ scan_error' = scan_error
    /\ UNCHANGED << payload, parsed, unique, slots, background_tasks, response >>
    /\ cancel_signal' = TRUE
    /\ UNCHANGED << parserVars, modelVars >>
    /\ UNCHANGED otherVars

\* the cancellation signal fires while the lookups are under way: the lookups
\* in flight are abandoned and the call fails with ScanCancelled. manual_scan
\* hands no signal of its own to scan_dependencies, so the failure reaches it
\* as an Exception (raised) or as the cancellation of the awaiting task, which
\* is no Exception (cancelled)
Cancel ==
    /\ scan_pc = "lookups"
    /\ scan_pc' \in { "raised", "cancelled" }
    /\ scan_error' = ScanCancelled
    /\ UNCHANGED << payload, parsed, unique, slots, scan_result, failed_lookups,
                    background_tasks, response >>
    /\ cancel_signal' = TRUE
    /\ UNCHANGED << parserVars, modelVars >>
    /\ UNCHANGED otherVars

\* every lookup has succeeded or has been recorded as failed
AllSettled == \A i \in 1 .. Len(slots) : slots[i].state \in { "done", "failed" }

\* ScanReturn with a failed lookup aborting the scan
ScanReturnAbortOnFailure ==
    /\ scan_pc = "lookups"
    /\ AllSettled
    /\ IF FailedCount(slots) > 0
       THEN /\ scan_pc' = "raised"
            /\ scan_error' = [ type |-> "LookupError", message |-> "" ]
            /\ UNCHANGED << scan_result, failed_lookups >>
       ELSE /\ scan_result' = BuildScanResult(payload, unique, slots)
            /\ failed_lookups' = FailedCount(slots)
            /\ scan_pc' = "returned"
            /\ scan_error' = scan_error
    /\ UNCHANGED << payload, parsed, unique, slots, background_tasks, response >>
    /\ UNCHANGED << parserVars, modelVars, cancel_signal >>
    /\ UNCHANGED otherVars

\* steps 5 to 7, once every lookup has completed or failed: the slots are
\* merged and the ScanResult is returned, the failure count alongside
ScanReturn ==
    /\ scan_pc = "lookups"
    /\ AllSettled
    /\ scan_result' = BuildScanResult(payload, unique, slots)
    /\ failed_lookups' = FailedCount(slots)
    /\ scan_pc' = "returned"
    /\ UNCHANGED << payload, parsed, unique, slots, scan_error, background_tasks,
                    response >>
    /\ UNCHANGED << parserVars, modelVars, cancel_signal >>
    /\ UNCHANGED otherVars

\* the body manual_scan returns for a scan result (scan_date, summaries and
\* references, which the vulnerabilities of this model do not carry, left out)
ResponseBody(scan) ==
    [ kind                        |-> "body",
      status_code                 |-> 200,
      repository                  |-> scan.repository,
      branch                      |-> scan.branch,
      dependencies_count          |-> scan.dependencies_count,
      vulnerabilities_count       |-> Len(scan.vulnerabilities),
      vulnerabilities_by_severity |-> scan.vulnerabilities_by_severity,
      vulnerabilities             |->
          [ i \in 1 .. Len(scan.vulnerabilities) |->
              [ id                |-> scan.vulnerabilities[i].id,
                severity          |-> scan.vulnerabilities[i].severity,
                affected_packages |->
                    [ k \in 1 .. Len(scan.vulnerabilities[i].affected_packages) |->
                        [ name      |-> scan.vulnerabilities[i].affected_packages[k].name,
                          ecosystem |->
                              scan.vulnerabilities[i].affected_packages[k].ecosystem ] ] ] ] ]

\* background_tasks.add_task(send_vulnerability_notification, scan_result)
AddTask(tasks, scan) ==
    Append(tasks, [ task |-> "send_vulnerability_notification", argument |-> scan ])

\* ManualScanReturn with the notification scheduled for every scan result
ManualScanReturnAlwaysNotify ==
    /\ scan_pc = "returned"
    /\ background_tasks' = AddTask(background_tasks, scan_result)
    /\ response' = ResponseBody(scan_result)
    /\ scan_pc' = "responded"
    /\ UNCHANGED << payload, parsed, unique, slots, scan_result, failed_lookups,
                    scan_error >>
    /\ UNCHANGED << parserVars, modelVars, cancel_signal >>
    /\ UNCHANGED otherVars

\* manual_scan after scan_dependencies has returned: the notification task is
\* added if the result has vulnerabilities, and the body is returned
ManualScanReturn ==
    /\ scan_pc = "returned"
    /\ background_tasks' = IF scan_result.has_vulnerabilities
                           THEN AddTask(background_tasks, scan_result)
                           ELSE background_tasks
    /\ response' = ResponseBody(scan_result)
    /\ scan_pc' = "responded"
    /\ UNCHANGED << payload, parsed, unique, slots, scan_result, failed_lookups,
                    scan_error >>
    /\ UNCHANGED << parserVars, modelVars, cancel_signal >>
    /\ UNCHANGED otherVars

\* manual_scan when scan_dependencies raised an Exception: the except clause
\* logs it and raises HTTPException(status_code=500, detail=...)
ManualScanExcept ==
    /\ scan_pc = "raised"
    /\ response' = [ kind        |-> "HTTPException",
                     status_code |-> 500,
                     detail      |-> scan_error.message ]
    /\ scan_pc' = "responded"
    /\ UNCHANGED << payload, parsed, unique, slots, scan_result, failed_lookups,
                    scan_error, background_tasks >>
    /\ UNCHANGED << parserVars, modelVars, cancel_signal >>
    /\ UNCHANGED otherVars

ScanNext ==
    \/ GetApiKey
    \/ ManualScanCall
    \/ ScanParse
    \/ \E i \in 1 .. Len(slots) : Dispatch(i)
    \/ \E i \in 1 .. Len(slots) : LookupReturns(i)
    \/ \E i \in 1 .. Len(slots) : LookupTransientError(i)
    \/ \E i \in 1 .. Len(slots) : LookupFatalError(i)
    \/ Cancel
    \/ ScanReturn
    \/ ManualScanReturn
    \/ ManualScanExcept

ScanSpec == Init /\ [][ScanNext]_vars

\* some lookup is dispatched
LookupStarts == \E i \in 1 .. Len(slots) : Dispatch(i)

\* some lookup in flight ends: with a result, with an error or by its timeout
LookupEnds ==
    \E i \in 1 .. Len(slots) :
        LookupReturns(i) \/ LookupTransientError(i) \/ LookupFatalError(i)

\* ENABLED <<ScanReturn>>_vars, which is the guard of ScanReturn
ScanReturnEnabled == scan_pc = "lookups" /\ AllSettled

\* the event loop runs every task that can run, and every lookup ends (with a
\* result, an error or its timeout): a lookup that can be dispatched is
\* dispatched, a lookup in flight ends, and a scan whose lookups have all
\* settled goes on (weak fairness of ScanReturn, stated with its guard: the
\* step disables itself)
FairScanSpec ==
    /\ ScanSpec
    /\ WF_vars(LookupStarts)
    /\ WF_vars(LookupEnds)
    /\ []<>(~ScanReturnEnabled)


-----------------------------------------------------------------------------
(* GitHub webhook signatures (app/core/security.py) *)

\* a character outside ASCII, written by its code point
NonAscii == "U+00E9"

\* the characters of request bodies and secrets, in the order of their code
\* points
Bytes == << "1", "a", "s", "t", "{", "}" >>

Ord(c) == CHOOSE i \in 1 .. Len(Bytes) : Bytes[i] = c

HexDigits == << "0", "1", "2", "3", "4", "5", "6", "7", "8", "9",
                "a", "b", "c", "d", "e", "f" >>

RECURSIVE Mix(_, _)
\* the bytes of text absorbed into the digest state h
Mix(h, text) ==
    IF text = << >> THEN h
    ELSE Mix((h * 31 + Ord(Head(text))) % (16 ^ DigestHexChars), Tail(text))

RECURSIVE Hex(_, _)
\* n written with `width` lower-case hexadecimal digits
Hex(n, width) ==
    IF width = 0 THEN << >>
    ELSE Hex(n \div 16, width - 1) \o << HexDigits[(n % 16) + 1] >>

\* hmac.new(key=key, msg=msg, digestmod=hashlib.sha256).hexdigest(): a keyed
\* digest of the message in lower-case hexadecimal. The digest function here
\* is a short keyed hash in place of SHA-256: it depends on every byte of the
\* key and of the message and has a fixed width.
hexdigest(key, msg) == Hex(Mix(Mix(7, key) + 1, msg), DigestHexChars)

\* secrets.compare_digest(a, b) on two str: a TypeError when one of them has
\* a character outside ASCII, else whether they are equal
compare_digest(a, b) ==
    IF \E i \in 1 .. Len(a) : a[i] = NonAscii
    THEN Raised("TypeError")
    ELSE [ kind |-> "return", value |-> a = b ]

Sha256Prefix == << "s", "h", "a", "2", "5", "6", "=" >>

\* verify_github_webhook(request, x_hub_signature_256) for a request with the
\* raw body raw_body, under settings.GITHUB_WEBHOOK_SECRET = secret
verify_github_webhook(raw_body, header, secret) ==
    IF header = NoneValue \/ header.value = << >>
    THEN HTTPException(401, "X-Hub-Signature-256 header is missing")
    ELSE IF ~StartsWith(header.value, Sha256Prefix)
    THEN HTTPException(403, "Invalid signature format")
    ELSE LET signature == From(header.value, 8)
             expected_signature == hexdigest(secret, raw_body)
             same == compare_digest(signature, expected_signature)
         IN  IF same.kind = "raise" THEN same
             ELSE IF ~same.value THEN HTTPException(403, "Invalid signature")
             ELSE [ kind |-> "return", value |-> TRUE ]

\* raw request bodies
Bodies == { << >>, << "{", "}" >>, << "{", "a", "}" >>, << "a" >> }

\* values of GITHUB_WEBHOOK_SECRET
Secrets == { << "s" >>, << "t" >>, << "s", "1" >> }

\* text with its letters in upper case
UpperHex(text) ==
    [ i \in 1 .. Len(text) |->
        CASE text[i] = "a" -> "A" [] text[i] = "b" -> "B" [] text[i] = "c" -> "C"
          [] text[i] = "d" -> "D" [] text[i] = "e" -> "E" [] text[i] = "f" -> "F"
          [] OTHER -> text[i] ]

\* the signatures a sender computes, with any of the secrets over any body
Digests == { hexdigest(k, m) : k \in Secrets, m \in Bodies }

\* what follows the prefix in a header: a digest, one in upper case, one with
\* a character more, nothing, text that is no digest
SignatureTexts ==
    Digests \cup { UpperHex(d) : d \in Digests } \cup { d \o << "0" >> : d \in Digests }
    \cup { << >>, << "x" >>, << NonAscii >> }

SignaturePrefixes ==
    { Sha256Prefix, << "s", "h", "a", "1", "=" >>, << "S", "H", "A", "2", "5", "6", "=" >>,
      << "s", "h", "a", "2", "5", "6" >>, << >> }

\* the X-Hub-Signature-256 header of a request: absent, or some text
SignatureHeaders ==
    { NoneValue } \cup { Str(p \o t) : p \in SignaturePrefixes, t \in SignatureTexts }

\* a request arrives at an endpoint that depends on verify_github_webhook
VerifyGithubWebhook ==
    /\ hook_pc = "idle"
    /\ \E header \in SignatureHeaders, body \in Bodies, secret \in Secrets :
           /\ x_hub_signature_256' = header
           /\ request_body' = body
           /\ GITHUB_WEBHOOK_SECRET' = Str(secret)
           /\ hook_out' = verify_github_webhook(body, header, secret)
    /\ hook_pc' = "done"
    /\ UNCHANGED << parserVars, modelVars, scanVars, securityVars, settingsVars,
                    registerVars >>

WebhookNext == VerifyGithubWebhook

WebhookSpec == Init /\ [][WebhookNext]_vars

-----------------------------------------------------------------------------
(* Settings (app/core/config.py) *)

\* class NotificationMethod(str, Enum)
NotificationMethod == { "email", "slack", "discord", "all" }

\* the fields of Settings in the order the class declares them, which is the
\* order pydantic validates them in; left out are the fields that have a
\* default and take no part in any validator (DEBUG, LOG_LEVEL, PROJECT_NAME,
\* VERSION, OSV_API_URL, GITHUB_GRAPHQL_URL, DATABASE_URL)
SettingsFields ==
    << [ name |-> "API_KEY", type |-> "str", required |-> TRUE, default |-> NoneValue ],
       [ name |-> "GITHUB_TOKEN", type |-> "str", required |-> TRUE, default |-> NoneValue ],
       [ name |-> "GITHUB_WEBHOOK_SECRET", type |-> "str", required |-> TRUE,
         default |-> NoneValue ],
       [ name |-> "NOTIFICATION_METHOD", type |-> "NotificationMethod", required |-> FALSE,
         default |-> Str("email") ],
       [ name |-> "SMTP_SERVER", type |-> "str", required |-> FALSE, default |-> NoneValue ],
       [ name |-> "SMTP_PORT", type |-> "int", required |-> FALSE, default |-> NoneValue ],
       [ name |-> "SMTP_USERNAME", type |-> "str", required |-> FALSE, default |-> NoneValue ],
       [ name |-> "SMTP_PASSWORD", type |-> "str", required |-> FALSE, default |-> NoneValue ],
       [ name |-> "EMAIL_FROM", type |-> "str", required |-> FALSE, default |-> NoneValue ],
       [ name |-> "EMAIL_TO", type |-> "str", required |-> FALSE, default |-> NoneValue ],
       [ name |-> "SLACK_WEBHOOK_URL", type |-> "str", required |-> FALSE,
         default |-> NoneValue ],
       [ name |-> "DISCORD_WEBHOOK_URL", type |-> "str", required |-> FALSE,
         default |-> NoneValue ] >>

FieldNames == { SettingsFields[i].name : i \in 1 .. Len(SettingsFields) }

\* values.get(name): the value of a field validated before, else None
Get(vals, name) ==
    IF \E entry \in vals : entry.name = name
    THEN (CHOOSE entry \in vals : entry.name = name).value
    ELSE NoneValue

\* not v, for None, a str, an int or a list
Falsy(v) ==
    \/ v = NoneValue
    \/ v.kind = "int" /\ v.value = 0
    \/ v.kind \in { "str", "list" } /\ v.value = << >>

RECURSIVE SplitComma(_)
\* str.split(',')
SplitComma(text) ==
    IF ~Contains(text, << "," >>) THEN << text >>
    ELSE LET i == CHOOSE j \in 1 .. Len(text) :
                      text[j] = "," /\ \A k \in 1 .. j - 1 : text[k] # ","
         IN  << SubSeq(text, 1, i - 1) >> \o SplitComma(From(text, i + 1))

\* @validator('EMAIL_TO', pre=True) split_email_string
split_email_string(v) ==
    IF v.kind = "str" /\ Contains(v.value, << "," >>)
    THEN [ kind |-> "list", value |-> SplitComma(v.value) ]
    ELSE v

RECURSIVE ParseInt(_, _)
\* the number the decimal digits of text denote, after the digits read as n
ParseInt(n, text) ==
    IF text = << >> THEN n
    ELSE ParseInt(10 * n + (CHOOSE d \in 0 .. 9 : HexDigits[d + 1] = Head(text)),
                  Tail(text))

\* validation of a value against the type of its field
Coerce(type, v) ==
    CASE type = "str" ->
             IF v.kind = "str" THEN v ELSE Raised("string_type")
      [] type = "int" ->
             IF v.kind = "str" /\ v.value # << >>
                /\ \A i \in 1 .. Len(v.value) : v.value[i] \in Digits
             THEN [ kind |-> "int", value |-> ParseInt(0, v.value) ]
             ELSE Raised("int_parsing")
      [] type = "NotificationMethod" ->
             IF v.kind = "str" /\ v.value \in NotificationMethod
             THEN v ELSE Raised("enum")

RequiredEmailFields ==
    << "SMTP_SERVER", "SMTP_PORT", "SMTP_USERNAME", "SMTP_PASSWORD", "EMAIL_FROM",
       "EMAIL_TO" >>

\* @validator('NOTIFICATION_METHOD') check_notification_config(cls, v, values)
check_notification_config(v, vals) ==
    IF /\ v.value \in { "email", "all" }
       /\ \E i \in 1 .. Len(RequiredEmailFields) :
              Falsy(Get(vals, RequiredEmailFields[i]))
    THEN Raised("ValueError")
    ELSE IF v.value \in { "slack", "all" } /\ Falsy(Get(vals, "SLACK_WEBHOOK_URL"))
    THEN Raised("ValueError")
    ELSE IF v.value \in { "discord", "all" } /\ Falsy(Get(vals, "DISCORD_WEBHOOK_URL"))
    THEN Raised("ValueError")
    ELSE v

\* validation of one field: a field the environment does not provide takes
\* its default, which no validator sees; a provided value goes through the
\* pre-validator of the field, its type, and its validator, which gets the
\* fields validated before it as `values`
FieldOutcome(field, raw, vals) ==
    IF raw = NoneValue
    THEN IF field.required THEN Raised("missing") ELSE field.default
    ELSE LET pre   == IF field.name = "EMAIL_TO" THEN split_email_string(raw) ELSE raw
             typed == Coerce(field.type, pre)
         IN  IF typed.kind = "raise" THEN typed
             ELSE IF field.name = "NOTIFICATION_METHOD"
             THEN check_notification_config(typed, vals)
             ELSE typed

\* what the environment provides for NOTIFICATION_METHOD: nothing, or a name
MethodInputs == { NoneValue } \cup { Str(m) : m \in NotificationMethod \cup { "sms" } }

OptionalFields == { "SMTP_SERVER", "SMTP_PORT", "SMTP_USERNAME", "SMTP_PASSWORD",
                    "EMAIL_FROM", "EMAIL_TO", "SLACK_WEBHOOK_URL", "DISCORD_WEBHOOK_URL" }

\* one address, or two separated by a comma
EmailToInputs == { Str(<< "a" >>), Str(<< "a", ",", "b" >>) }

\* the environments Settings() is built from: the three required fields are
\* provided, the method and each optional setting is provided or not
Environments ==
    { [ f \in FieldNames |->
          CASE f = "NOTIFICATION_METHOD" -> method
            [] f = "EMAIL_TO" -> IF f \in given THEN email_to ELSE NoneValue
            [] f = "SMTP_PORT" -> IF f \in given THEN Str(<< "2", "5" >>) ELSE NoneValue
            [] f \in OptionalFields \ { "EMAIL_TO", "SMTP_PORT" } ->
                   IF f \in given THEN Str(<< "x" >>) ELSE NoneValue
            [] OTHER -> Str(<< "x" >>) ] :
      method \in MethodInputs, given \in SUBSET OptionalFields, email_to \in EmailToInputs }

\* Settings() is called: the values of the fields are read from the environment
SettingsCall ==
    /\ next_field = 0
    /\ environ' \in Environments
    /\ next_field' = 1
    /\ UNCHANGED << values, field_errors >>
    /\ UNCHANGED << parserVars, modelVars, scanVars, securityVars, hookVars, registerVars >>

\* the next field is validated; a field that fails is recorded in the errors
\* and is not in `values`; after the last field Settings() raises
\* ValidationError when there are errors and returns the object otherwise
ValidateField ==
    /\ next_field \in 1 .. Len(SettingsFields)
    /\ LET field == SettingsFields[next_field]
           out   == FieldOutcome(field, environ[field.name], values)
       IN  IF out.kind = "raise"
           THEN /\ field_errors' = field_errors \cup { field.name }
                /\ UNCHANGED values
           ELSE /\ values' = values \cup { [ name |-> field.name, value |-> out ] }
                /\ UNCHANGED field_errors
    /\ next_field' = next_field + 1
    /\ UNCHANGED environ
    /\ UNCHANGED << parserVars, modelVars, scanVars, securityVars, hookVars, registerVars >>

SettingsNext == SettingsCall \/ ValidateField

SettingsSpec == Init /\ [][SettingsNext]_vars

-----------------------------------------------------------------------------
(* Registration (app/api/routes/auth.py, app/models/user.py) *)

\* the register requests; register is a plain def, which FastAPI runs in a
\* thread pool, each request with a database session of its own
Requests == 1 .. MaxRequests

\* values of UserCreate.email and UserCreate.password
Emails == { "a@x.io", "b@x.io", "c@x.io" }
Passwords == { "pw1", "pw2" }

\* get_password_hash(password)
get_password_hash(password) == << "hash", password >>

\* db.query(User).filter(User.email == email).first()
FirstByEmail(table, email) ==
    IF \E i \in 1 .. Len(table) : table[i].email = email
    THEN table[CHOOSE i \in 1 .. Len(table) :
                   /\ table[i].email = email
                   /\ \A j \in 1 .. i - 1 : table[j].email # email]
    ELSE NoneValue

\* User(email=..., hashed_password=...): id is the primary key, None until
\* the row is inserted; is_active defaults to True and is_admin to False
User(id, email, hashed_password) ==
    [ id |-> id, email |-> email, hashed_password |-> hashed_password,
      is_active |-> TRUE, is_admin |-> FALSE ]

\* register up to its answer or its db.add: the user is looked up by email;
\* a user found ends the request with 400, else the new user is built
RegisterQuery(r) ==
    /\ sessions[r].pc = "idle"
    /\ \E email \in Emails, password \in Passwords :
           LET db_user == FirstByEmail(users, email)
           IN  sessions' =
                   [ sessions EXCEPT ![r] =
                       IF db_user # NoneValue
                       THEN [ pc |-> "done", email |-> email,
                              response |-> HTTPException(400, "Email already registered") ]
                       ELSE [ pc |-> "added", email |-> email,
                              new_user |-> User(NoneValue, email, get_password_hash(password)) ] ]
    /\ UNCHANGED users
    /\ UNCHANGED << parserVars, modelVars, scanVars, securityVars, hookVars, settingsVars >>

\* db.commit() and db.refresh(new_user): the row is inserted and the user is
\* returned, unless a row with this email exists; the column is unique, the
\* insert then fails with IntegrityError, which register does not catch
RegisterCommit(r) ==
    /\ sessions[r].pc = "added"
    /\ LET row == [ sessions[r].new_user EXCEPT !.id = Len(users) + 1 ]
       IN  IF FirstByEmail(users, row.email) # NoneValue
           THEN /\ sessions' = [ sessions EXCEPT ![r] =
                                   [ pc |-> "done", email |-> row.email,
                                     response |-> Raised("IntegrityError") ] ]
                /\ UNCHANGED users
           ELSE /\ users' = Append(users, row)
                /\ sessions' = [ sessions EXCEPT ![r] =
                                   [ pc |-> "done", email |-> row.email,
                                     response |-> [ kind |-> "return", value |-> row ] ] ]
    /\ UNCHANGED << parserVars, modelVars, scanVars, securityVars, hookVars, settingsVars >>

RegisterNext ==
    \/ \E r \in Requests : RegisterQuery(r)
    \/ \E r \in Requests : RegisterCommit(r)

RegisterSpec == Init /\ [][RegisterNext]_vars

-----------------------------------------------------------------------------
(* Vocabulary of the properties *)

\* the least element of a non-empty set of integers
Least(S) == CHOOSE x \in S : \A y \in S : x <= y

\* the positions in `dependencies` of the dependencies that came from line k
DepsFromLine(k) == { i \in 1 .. Len(origin) : origin[i] = k }

\* the text of physical line raw that reaches _parse_package
SpecText(raw) == DropEditable(DropContinuation(Strip(raw)))

\* the version-constraint text of a normal spec: what follows the name and the
\* optional extras
ConstraintText(raw) == Strip(MatchSpec(SpecText(raw)).group2)

\* raw contains git+, http:// or https://
MentionsUrl(raw) ==
    \E marker \in { GitPlus, Http, Https } :
        \E i \in 1 .. Len(raw) : StartsWithAt(raw, i, marker)

\* the operators in their precedence order
Operators == << OpEq, OpGe, OpGt, OpLe, OpLt, OpCompat >>

\* the value that follows position i of text, after optional whitespace: the
\* longest run of [a-zA-Z0-9_.-], possibly empty
ValueAt(text, i) ==
    LET start == RunEnd(text, i, Whitespace) + 1
    IN  SubSeq(text, start, RunEnd(text, start, NameChars))

\* the positions at which op occurs in text
Occurrences(op, text) == { i \in 1 .. Len(text) : StartsWithAt(text, i, op) }

\* the positions at which op occurs in text followed by a non-empty value
ValuedOccurrences(op, text) ==
    { i \in Occurrences(op, text) : ValueAt(text, i + Len(op)) # << >> }

-----------------------------------------------------------------------------
(* C1 *)

\* the version the claim as written gives a constraint text in which the
\* operator of precedence j is the first one present
C1_ClaimedVersion(vc, j) ==
    LET op    == Operators[j]
        value == ValueAt(vc, Least(Occurrences(op, vc)) + Len(op))
    IN  IF j = 1 THEN value ELSE op \o value

\* C1 as written: the version of a normal spec comes from the first operator
\* present in the order ==, >=, >, <=, <, ~= (the value alone for ==, the
\* operator and its value otherwise), and is "latest" without constraint text.
C1_Original ==
    pc = "returned" =>
        \A i \in 1 .. Len(origin) :
            LET raw     == lines[origin[i]]
                vc      == ConstraintText(raw)
                present == { j \in 1 .. 6 : Occurrences(Operators[j], vc) # { } }
            IN  ~MentionsUrl(raw) =>
                    /\ vc = << >> => dependencies[i].version = Latest
                    /\ present # { } =>
                           dependencies[i].version = C1_ClaimedVersion(vc, Least(present))

\* the version of the amended claim
C1_AmendedVersion(vc) ==
    LET present == { j \in 2 .. 6 : Occurrences(Operators[j], vc) # { } }
        op      == Operators[Least(present)]
        valued  == ValuedOccurrences(op, vc)
    IN  IF ValuedOccurrences(OpEq, vc) # { }
        THEN ValueAt(vc, Least(ValuedOccurrences(OpEq, vc)) + 2)
        ELSE IF present = { } \/ valued = { } THEN Latest
        ELSE op \o ValueAt(vc, Least(valued) + Len(op))

\* C1 amended: == is chosen only where a value follows it, and then gives the
\* value after its first valued occurrence; otherwise the first of >=, >, <=,
\* <, ~= that occurs in the constraint text is chosen and gives the operator
\* concatenated with the value after its first valued occurrence, or "latest"
\* when no occurrence of it is followed by a value; the other operators' terms
\* are discarded; without any of the six operators the version is "latest".
C1_VersionFromFirstOperator ==
    pc = "returned" =>
        \A i \in 1 .. Len(origin) :
            LET raw == lines[origin[i]]
            IN  ~MentionsUrl(raw) =>
                    dependencies[i].version = C1_AmendedVersion(ConstraintText(raw))

\* a line whose text has a valued < term before a valued >= term was parsed,
\* and its version is the >= term
C1_Witness ==
    /\ pc = "returned"
    /\ \E i \in 1 .. Len(origin) :
           LET vc == ConstraintText(lines[origin[i]])
           IN  /\ ~MentionsUrl(lines[origin[i]])
               /\ StartsWith(vc, OpLt \o << "1" >> \o OpGe \o << "1" >>)
               /\ dependencies[i].version = OpGe \o << "1" >>

-----------------------------------------------------------------------------
(* C2 *)

\* the dependency at position i is (name, "unknown", PyPI)
C2_IsUrlDependency(i, name) ==
    /\ dependencies[i].name = name
    /\ dependencies[i].version = Unknown
    /\ dependencies[i].ecosystem = "PyPI"

\* C2 as written: a line containing git+, http:// or https:// yields exactly
\* one dependency, named by its #egg= fragment, when it contains "#egg=", and
\* none when it does not; parse() does not raise.
C2_Original ==
    /\ pc # "raised"
    /\ pc = "returned" =>
        \A k \in 1 .. Len(lines) :
            LET raw  == lines[k]
                eggs == Occurrences(EggFragment, raw)
            IN  MentionsUrl(raw) =>
                    IF eggs # { }
                    THEN /\ Cardinality(DepsFromLine(k)) = 1
                         /\ \A i \in DepsFromLine(k) :
                                C2_IsUrlDependency(i,
                                    ValueAt(raw, RunEnd(raw, Least(eggs) + 5, { })  + 1))
                    ELSE DepsFromLine(k) = { }

\* the trimmed line is a comment or begins with a skipped option prefix
C2_CommentOrOption(raw) ==
    \E p \in { << "#" >>, << "-", "r" >>, << "-", "f" >>, << "-", "i" >>,
               << "-", "-", "r", "e", "q", "u", "i", "r", "e", "m", "e", "n", "t" >>,
               << "-", "-", "f", "i", "n", "d", "-", "l", "i", "n", "k", "s" >>,
               << "-", "-", "i", "n", "d", "e", "x", "-", "u", "r", "l" >> } :
        StartsWith(Strip(raw), p)

\* the positions of raw where "#egg=" is directly followed by a name character
C2_NamedEggs(raw) ==
    { i \in Occurrences(EggFragment, raw) :
        i + 5 <= Len(raw) /\ raw[i + 5] \in NameChars }

\* C2 amended: a line that is neither a comment nor a skipped option line and
\* contains git+, http:// or https:// (with or without -e) yields exactly one
\* dependency (the name that directly follows its first "#egg=" that has one,
\* version "unknown", PyPI) when some "#egg=" in it is directly followed by a
\* name character, and none otherwise; parse() does not raise.
C2_UrlSpecYieldsEggDependency ==
    /\ pc # "raised"
    /\ pc = "returned" =>
        \A k \in 1 .. Len(lines) :
            LET raw  == lines[k]
                eggs == C2_NamedEggs(raw)
            IN  MentionsUrl(raw) /\ ~C2_CommentOrOption(raw) =>
                    IF eggs # { }
                    THEN /\ Cardinality(DepsFromLine(k)) = 1
                         /\ \A i \in DepsFromLine(k) :
                                C2_IsUrlDependency(i,
                                    SubSeq(raw, Least(eggs) + 5,
                                           RunEnd(raw, Least(eggs) + 5, NameChars)))
                    ELSE DepsFromLine(k) = { }

\* an editable http:// line with an #egg= fragment was parsed into one
\* dependency of version "unknown"
C2_Witness ==
    /\ pc = "returned"
    /\ \E k \in 1 .. Len(lines) :
           /\ StartsWith(lines[k], Editable)
           /\ Contains(lines[k], Http)
           /\ C2_NamedEggs(lines[k]) # { }
           /\ \E i \in DepsFromLine(k) : dependencies[i].version = Unknown

-----------------------------------------------------------------------------
(* C3 *)

\* line k ends with the continuation marker and another line follows it
C3_Continued(k) == k < Len(lines) /\ EndsWith(Strip(lines[k]), Backslash)

\* the logical line the claim describes: line k without its marker, joined
\* with line k + 1
C3_Joined(k) ==
    LET stripped == Strip(lines[k])
    IN  SubSeq(stripped, 1, Len(stripped) - 1) \o lines[k + 1]

\* C3: a line ending with a backslash is joined with the following line
\* before any further processing, so the two physical lines together yield at
\* most one dependency, the one parsed from the joined text.
C3_ContinuationJoined ==
    pc = "returned" =>
        \A k \in 1 .. Len(lines) :
            C3_Continued(k) /\ ~StartsWith(Strip(lines[k]), Hash) =>
                LET joined == ProcessLine(C3_Joined(k))
                    found  == DepsFromLine(k) \cup DepsFromLine(k + 1)
                IN  /\ Cardinality(found) <= 1
                    /\ \A i \in found :
                           joined.kind = "dep" /\ dependencies[i] = joined.value

-----------------------------------------------------------------------------
(* C4 *)

\* the trimmed line begins with one of the six option prefixes
C4_OptionLine(raw) ==
    \E p \in { << "-", "r" >>, << "-", "f" >>, << "-", "i" >>,
               << "-", "-", "r", "e", "q", "u", "i", "r", "e", "m", "e", "n", "t" >>,
               << "-", "-", "f", "i", "n", "d", "-", "l", "i", "n", "k", "s" >>,
               << "-", "-", "i", "n", "d", "e", "x", "-", "u", "r", "l" >> } :
        StartsWith(Strip(raw), p)

\* C4: no dependency comes from a line that, trimmed, begins with -r, -f, -i,
\* --requirement, --find-links or --index-url, whatever follows the prefix.
C4_OptionLinesSkipped ==
    \A k \in 1 .. Len(lines) : C4_OptionLine(lines[k]) => DepsFromLine(k) = { }

\* parse() returned for a manifest with an option line whose remainder is a
\* package spec or a URL with an #egg= fragment
C4_Witness ==
    /\ pc = "returned"
    /\ \E k \in 1 .. Len(lines) :
           /\ C4_OptionLine(lines[k])
           /\ \/ Contains(lines[k], << " ", "a", "=", "=", "1" >>)
              \/ Contains(lines[k], EggFragment \o << "a" >>)

-----------------------------------------------------------------------------
(* C5 *)

\* the line is blank or its first non-whitespace character is #
C5_BlankOrComment(raw) ==
    \A i \in 1 .. Len(raw) :
        (\A j \in 1 .. i - 1 : raw[j] \in Whitespace) =>
            raw[i] \in Whitespace \cup { "#" }

\* blank and comment lines to insert
C5_Insertions ==
    { << " ", "\t" >>, << "#", " ", "a", "=", "=", "1" >>,
      << " ", "#" >> \o GitPlus \o EggFragment \o << "a" >>,
      << "#", "a", "\\" >> }

\* the sequence ls without its element k
RemoveAt(ls, k) == SubSeq(ls, 1, k - 1) \o SubSeq(ls, k + 1, Len(ls))

\* the sequence ls with x inserted after its element k
InsertAfter(ls, k, x) == SubSeq(ls, 1, k) \o << x >> \o SubSeq(ls, k + 1, Len(ls))

\* the dependencies parsed from the manifest made of the lines ls
C5_Parsed(ls) == ParseLines(Splitlines(JoinLines(ls, << "\n" >>)))

\* C5: no dependency comes from a blank or comment line, and the manifest
\* with such a line removed, or with one inserted anywhere, parses to the same
\* sequence of dependencies.
C5_BlankAndCommentLinesIgnored ==
    pc = "returned" =>
        /\ \A k \in 1 .. Len(lines) :
               C5_BlankOrComment(lines[k]) =>
                   /\ DepsFromLine(k) = { }
                   /\ C5_Parsed(RemoveAt(lines, k)) = result.dependencies
        /\ \A k \in 0 .. Len(lines) : \A c \in C5_Insertions :
               C5_Parsed(InsertAfter(lines, k, c)) = result.dependencies

\* parse() returned a dependency for a manifest in which a comment line that
\* mentions a URL with an #egg= fragment precedes a line with a dependency
C5_Witness ==
    /\ pc = "returned"
    /\ \E k \in 1 .. Len(lines) :
           /\ C5_BlankOrComment(lines[k])
           /\ Contains(lines[k], EggFragment)
           /\ DepsFromLine(k + 1) # { }

-----------------------------------------------------------------------------
(* C6 *)

\* the line is no blank, comment or option line, and the text that reaches
\* _parse_package neither mentions a URL nor begins with a name character
C6_Unrecognized(raw) ==
    /\ ~C5_BlankOrComment(raw)
    /\ ~C4_OptionLine(raw)
    /\ ~MentionsUrl(raw)
    /\ SpecText(raw) = << >> \/ SpecText(raw)[1] \notin NameChars

\* C6: parse() never raises and returns a DependencyFileContent; a line that
\* matches no recognized pattern yields no dependency, and the manifest
\* without it parses to the same dependencies.
C6_NeverRaises ==
    /\ pc # "raised"
    /\ pc = "loop" => idx \in 1 .. Len(lines) + 1
    /\ pc = "returned" =>
        /\ result.file_type \in DependencyFileType
        /\ \A k \in 1 .. Len(lines) :
               C6_Unrecognized(lines[k]) =>
                   /\ DepsFromLine(k) = { }
                   /\ C5_Parsed(RemoveAt(lines, k)) = result.dependencies

\* parse() returned a dependency of the line after an unrecognized line
C6_Witness ==
    /\ pc = "returned"
    /\ \E k \in 1 .. Len(lines) :
           C6_Unrecognized(lines[k]) /\ DepsFromLine(k + 1) # { }

-----------------------------------------------------------------------------
(* C7 *)

\* C7: the result has file type requirements.txt, and its dependencies are
\* those of the lines in line order, at most one per line.
C7_EncounterOrder ==
    pc = "returned" =>
        /\ result.file_type = "requirements.txt"
        /\ Len(result.dependencies) = Len(origin)
        /\ \A i \in 1 .. Len(origin) :
               /\ origin[i] \in 1 .. Len(lines)
               /\ ProcessLine(lines[origin[i]]).kind = "dep"
               /\ ProcessLine(lines[origin[i]]).value = result.dependencies[i]
        /\ \A i, j \in 1 .. Len(origin) : i < j => origin[i] < origin[j]

\* parse() returned two dependencies of different names from two lines
C7_Witness ==
    /\ pc = "returned"
    /\ Len(result.dependencies) = 2
    /\ result.dependencies[1].name # result.dependencies[2].name
    /\ origin = << 1, 2 >>

-----------------------------------------------------------------------------
(* C8 *)

\* every character of text is one of [a-zA-Z0-9_.-]
C8_Plain(text) == \A i \in 1 .. Len(text) : text[i] \in NameChars

\* a concrete version, a constraint with its operator, "unknown" or "latest"
C8_VersionShape(version) ==
    \/ version \in { Unknown, Latest }
    \/ version # << >> /\ C8_Plain(version)
    \/ \E op \in { OpGe, OpGt, OpLe, OpLt, OpCompat } :
           /\ StartsWith(version, op)
           /\ Len(version) > Len(op)
           /\ C8_Plain(From(version, Len(op) + 1))

\* C8: every emitted dependency has a non-empty name without leading or
\* trailing whitespace, a non-empty version of one of the four shapes,
\* ecosystem PyPI, and is no dev dependency.
C8_DependenciesWellFormed ==
    \A i \in 1 .. Len(dependencies) :
        LET d == dependencies[i]
        IN  /\ d.name # << >>
            /\ d.name[1] \notin Whitespace
            /\ d.name[Len(d.name)] \notin Whitespace
            /\ d.version # << >>
            /\ C8_VersionShape(d.version)
            /\ d.ecosystem = "PyPI"
            /\ d.is_dev_dependency = FALSE

\* the list holds a dependency of version "unknown" and one whose version is
\* a constraint with its operator
C8_Witness ==
    /\ \E i \in 1 .. Len(dependencies) : dependencies[i].version = Unknown
    /\ \E i \in 1 .. Len(dependencies) : StartsWith(dependencies[i].version, OpGe)

-----------------------------------------------------------------------------
(* C9 *)

\* a later parse() returns what the one before it returned, and what parse()
\* works on is the parser's file content
C9_SameResult ==
    /\ pc = "returned" /\ calls >= 2 => result = prevResult
    /\ pc \in { "loop", "returned" } => lines = Splitlines(file_content)

\* C9: a second parse() of the same text, on the same parser or on a new one
\* built from that text, returns what the first returned, and no step of
\* parse() changes the parser's file content.
C9_Deterministic ==
    []C9_SameResult /\ [][(pc # "start") => (file_content' = file_content)]_vars

\* the second parse() returned a result with a dependency
C9_Witness ==
    /\ pc = "returned"
    /\ calls = 2
    /\ result.dependencies # << >>
    /\ result = prevResult

-----------------------------------------------------------------------------
(* C10 *)

\* C10: create_parser fails with UnsupportedFileType, and builds no parser,
\* for every token that is none of the 13 file-type values.
C10_UnknownTokenUnsupported ==
    /\ pc # "start"
    /\ file_type_token \notin
           { "requirements.txt", "poetry.lock", "Pipfile.lock", "package.json",
             "package-lock.json", "yarn.lock", "composer.json", "composer.lock",
             "Gemfile", "Gemfile.lock", "Cargo.lock", "go.mod", "go.sum" }
    => /\ pc = "failed"
       /\ error = [ type |-> "ValueError", message |-> "Unsupported file type" ]
       /\ parser_class = "none"
       /\ file_content = << >>

\* create_parser failed with UnsupportedFileType for the token "xyz"
C10_Witness ==
    /\ pc = "failed"
    /\ file_type_token = "xyz"
    /\ error = UnsupportedFileType

-----------------------------------------------------------------------------
(* C11 *)

\* C11: for each of the 11 file-type values with no registered parser
\* create_parser fails with NoParserAvailable (not UnsupportedFileType) and
\* builds no parser; for requirements.txt and poetry.lock it returns a parser.
C11_RegisteredOrNoParserAvailable ==
    pc # "start" =>
        /\ file_type_token \in
               { "Pipfile.lock", "package.json", "package-lock.json", "yarn.lock",
                 "composer.json", "composer.lock", "Gemfile", "Gemfile.lock",
                 "Cargo.lock", "go.mod", "go.sum" }
           => /\ pc = "failed"
              /\ error = [ type    |-> "ValueError",
                           message |-> "No parser available for file type" ]
              /\ error # [ type |-> "ValueError", message |-> "Unsupported file type" ]
              /\ parser_class = "none"
        /\ file_type_token = "requirements.txt"
           => /\ pc # "failed"
              /\ error.type = "none"
              /\ parser_class = "RequirementsTxtParser"
        /\ file_type_token = "poetry.lock"
           => /\ pc = "created"
              /\ error.type = "none"
              /\ parser_class = "PoetryLockParser"

\* create_parser failed with NoParserAvailable for the token "Gemfile"
C11_Witness ==
    /\ pc = "failed"
    /\ file_type_token = "Gemfile"
    /\ error.message = "No parser available for file type"
    /\ parser_class = "none"

-----------------------------------------------------------------------------
(* C12 *)

\* C12: constructing a PackageDependency fails with ValidationError, and
\* yields no object, whenever the name is empty or the ecosystem is none of
\* PyPI, npm, Composer, Maven, NuGet, RubyGems, Cargo, Go, Other.
C12_InvalidConstructionFails ==
    /\ ctor_args.kind = "call"
    /\ \/ ctor_args.name = << >>
       \/ ctor_args.ecosystem \notin
              { "PyPI", "npm", "Composer", "Maven", "NuGet", "RubyGems", "Cargo",
                "Go", "Other" }
    => /\ ctor_out.kind = "raise"
       /\ ctor_out.exception = "ValidationError"

-----------------------------------------------------------------------------
(* C13 *)

\* the distinct (name, version, ecosystem) tuples of the parsed dependency list
C13_DistinctTuples ==
    { << parsed[i].name, parsed[i].version, parsed[i].ecosystem >> :
        i \in 1 .. Len(parsed) }

\* the dependencies a lookup has been dispatched for
C13_Dispatched == { i \in 1 .. Len(slots) : slots[i].attempts >= 1 }

\* C13: the number of dependencies a scan dispatches a lookup for never
\* exceeds the number of distinct (name, version, ecosystem) tuples of the
\* parsed list, and in a scan that returns both that number and the reported
\* dependencies_count equal it, whatever lines the manifest repeats.
C13_LookupsEqualDistinctDependencies ==
    /\ Cardinality(C13_Dispatched) <= Cardinality(C13_DistinctTuples)
    /\ scan_result.kind = "ScanResult" =>
           /\ Cardinality(C13_Dispatched) = Cardinality(C13_DistinctTuples)
           /\ scan_result.dependencies_count = Cardinality(C13_DistinctTuples)

\* a scan of a manifest of three lines, two of them the same, has returned
C13_Witness ==
    /\ scan_pc = "returned"
    /\ Len(parsed) = 3
    /\ Cardinality(C13_DistinctTuples) = 2
    /\ scan_result.dependencies_count = 2

-----------------------------------------------------------------------------
(* C14 *)

\* the number of dependencies whose lookup returned a vulnerability with the id
C14_LookupsReturning(id) ==
    Cardinality({ i \in 1 .. Len(slots) :
                    /\ slots[i].state = "done"
                    /\ \E k \in 1 .. Len(slots[i].vulnerabilities) :
                           slots[i].vulnerabilities[k].id = id })

\* the number of entries of the result's vulnerability list with the id
C14_Entries(id) ==
    Cardinality({ k \in 1 .. Len(scan_result.vulnerabilities) :
                    scan_result.vulnerabilities[k].id = id })

\* C14: a vulnerability id returned by the lookups of N >= 1 dependencies of
\* a scan appears exactly once in the vulnerability list of the ScanResult,
\* in whatever order the lookups completed.
C14_MergedOncePerId ==
    scan_result.kind = "ScanResult" =>
        \A id \in { "CVE-1", "CVE-2" } :
            C14_LookupsReturning(id) >= 1 => C14_Entries(id) = 1

\* a scan has returned in which the lookups of three dependencies all
\* returned CVE-1
C14_Witness ==
    /\ scan_pc = "returned"
    /\ C14_LookupsReturning("CVE-1") = 3
    /\ C14_Entries("CVE-1") = 1

-----------------------------------------------------------------------------
(* C15 *)

\* the ids of the vulnerabilities the successful lookups returned
C15_ReturnedIds ==
    { id \in { "CVE-1", "CVE-2" } :
        \E i \in 1 .. Len(slots) :
            /\ slots[i].state = "done"
            /\ \E k \in 1 .. Len(slots[i].vulnerabilities) :
                   slots[i].vulnerabilities[k].id = id }

\* the sum of the counts of a mapping from severity tier to count
C15_Total(by_severity) ==
    by_severity["LOW"] + by_severity["MEDIUM"] + by_severity["HIGH"]
        + by_severity["CRITICAL"]

\* C15: in every ScanResult returned the counts of vulnerabilities_by_severity
\* sum to the length of the vulnerability list, which holds one entry per
\* vulnerability id found, and has_vulnerabilities is true exactly when that
\* length is greater than zero; the body manual_scan returns reports the same.
C15_SeverityCountsSumToTotal ==
    /\ scan_result.kind = "ScanResult" =>
           /\ Len(scan_result.vulnerabilities) = Cardinality(C15_ReturnedIds)
           /\ DOMAIN scan_result.vulnerabilities_by_severity
                  = { "LOW", "MEDIUM", "HIGH", "CRITICAL" }
           /\ C15_Total(scan_result.vulnerabilities_by_severity)
                  = Len(scan_result.vulnerabilities)
           /\ scan_result.has_vulnerabilities <=> Len(scan_result.vulnerabilities) > 0
    /\ response.kind = "body" =>
           /\ response.vulnerabilities_count = Len(scan_result.vulnerabilities)
           /\ C15_Total(response.vulnerabilities_by_severity)
                  = response.vulnerabilities_count

\* a scan has returned two vulnerabilities of different severity, one of them
\* found by the lookups of two dependencies
C15_Witness ==
    /\ scan_pc = "returned"
    /\ C14_LookupsReturning("CVE-1") = 2
    /\ Len(scan_result.vulnerabilities) = 2
    /\ scan_result.vulnerabilities_by_severity["HIGH"] = 1
    /\ scan_result.vulnerabilities_by_severity["LOW"] = 1
    /\ scan_result.has_vulnerabilities

-----------------------------------------------------------------------------
(* C16 *)

\* the lookup of dependency i has met TransientError, at most MaxRetries
\* times, and no other error
C16_TransientWithinBound(i) ==
    /\ Len(slots[i].errors) \in 1 .. MaxRetries
    /\ \A k \in 1 .. Len(slots[i].errors) : slots[i].errors[k] = "TransientError"

\* every vulnerability the lookup of dependency i returned is in the result
C16_Included(i) ==
    \A k \in 1 .. Len(slots[i].vulnerabilities) :
        \E m \in 1 .. Len(scan_result.vulnerabilities) :
            scan_result.vulnerabilities[m].id = slots[i].vulnerabilities[k].id

\* C16: a dependency whose lookup has met only TransientError, no more often
\* than the retry bound, is not recorded as failed but tried again; when such
\* a retry has succeeded and the scan returns, the dependency is counted in
\* dependencies_count, not in the failure count, and its vulnerabilities are
\* in the result (three dependencies, one failing once: 3, 0, all present).
C16_RetriedLookupCounts ==
    /\ \A i \in 1 .. Len(slots) :
           C16_TransientWithinBound(i) => slots[i].state # "failed"
    /\ scan_result.kind = "ScanResult" =>
           /\ \A i \in 1 .. Len(slots) :
                  C16_TransientWithinBound(i) =>
                      /\ slots[i].state = "done"
                      /\ scan_result.dependencies_count = Len(slots)
                      /\ failed_lookups
                             = Cardinality({ j \in 1 .. Len(slots) \ { i } :
                                               slots[j].state = "failed" })
                      /\ C16_Included(i)
           /\ ( /\ Len(slots) = 3
                /\ \E i \in 1 .. 3 :
                       /\ slots[i].errors = << "TransientError" >>
                       /\ \A j \in 1 .. 3 \ { i } : slots[j].errors = << >> )
              => /\ scan_result.dependencies_count = 3
                 /\ failed_lookups = 0
                 /\ \A i \in 1 .. 3 : C16_Included(i)

\* a scan of three dependencies has returned: the lookup of one met
\* TransientError once and then returned a vulnerability, the others did not fail
C16_Witness ==
    /\ scan_pc = "returned"
    /\ Len(slots) = 3
    /\ slots[2].errors = << "TransientError" >>
    /\ slots[2].attempts = 2
    /\ Len(slots[2].vulnerabilities) = 1
    /\ slots[1].errors = << >>
    /\ slots[3].errors = << >>
    /\ scan_result.dependencies_count = 3
    /\ failed_lookups = 0

-----------------------------------------------------------------------------
(* C17 *)

\* what a scan has recorded of the failures of its lookups
C17_FailuresRecorded ==
    /\ (scan_pc = "raised" /\ ~cancel_signal) =>
           /\ slots = << >>
           /\ scan_error.type = "ValueError"
    /\ \A i \in 1 .. Len(slots) :
           /\ Len(slots[i].errors) <= MaxRetries + 1
           /\ (\E k \in 1 .. Len(slots[i].errors) : slots[i].errors[k] = "FatalError")
                  => slots[i].state = "failed"
           /\ Len(slots[i].errors) = MaxRetries + 1 => slots[i].state = "failed"
           /\ slots[i].state = "failed" =>
                  /\ slots[i].attempts = Len(slots[i].errors)
                  /\ \/ slots[i].errors[Len(slots[i].errors)] = "FatalError"
                     \/ Len(slots[i].errors) = MaxRetries + 1
    /\ scan_result.kind = "ScanResult" =>
           /\ failed_lookups
                  = Cardinality({ i \in 1 .. Len(slots) :
                                    slots[i].errors # << >>
                                    /\ slots[i].vulnerabilities = << >>
                                    /\ slots[i].state # "done" })
           /\ \A i \in 1 .. Len(slots) :
                  \A k \in 1 .. Len(slots[i].vulnerabilities) :
                      \E m \in 1 .. Len(scan_result.vulnerabilities) :
                          scan_result.vulnerabilities[m].id
                              = slots[i].vulnerabilities[k].id

\* a step leaves the slot of a lookup recorded as failed as it is
C17_NoFurtherAttempt ==
    \A i \in 1 .. Len(slots) :
        slots[i].state = "failed" => (Len(slots') = Len(slots) /\ slots'[i] = slots[i])

\* C17: no lookup failure aborts a scan. A lookup that fails fatally, or
\* transiently once more than the retry bound, is recorded in the failure
\* count and not attempted again, and a scan whose lookups are under way
\* eventually returns a ScanResult (unless the caller cancels it) that holds
\* the vulnerabilities of every lookup that succeeded.
C17_NoLookupFailureAborts ==
    ([]C17_FailuresRecorded)
    /\ [][C17_NoFurtherAttempt]_vars
    /\ ((scan_pc = "lookups") ~> (scan_result.kind = "ScanResult" \/ cancel_signal))

\* a scan has returned a result with a vulnerability although one lookup
\* failed fatally and another used up its retries
C17_Witness ==
    /\ scan_pc = "returned"
    /\ failed_lookups = 2
    /\ \E i \in 1 .. Len(slots) : slots[i].errors = << "FatalError" >>
    /\ \E i \in 1 .. Len(slots) :
           /\ Len(slots[i].errors) = MaxRetries + 1
           /\ slots[i].errors[1] = "TransientError"
           /\ slots[i].errors[Len(slots[i].errors)] = "TransientError"
    /\ scan_result.has_vulnerabilities

-----------------------------------------------------------------------------
(* C18 *)

\* the lookups that had completed, with a result or as failed
C18_Completed == { i \in 1 .. Len(slots) : slots[i].state \in { "done", "failed" } }

\* C18: once the cancellation signal has fired during a scan the scan call
\* has failed with ScanCancelled, and it has returned no ScanResult and
\* manual_scan no body, whichever lookups had completed by then.
C18_CancelledScanReturnsNothing ==
    cancel_signal =>
        /\ scan_error.type = "ScanCancelled"
        /\ scan_pc \in { "raised", "cancelled", "responded" }
        /\ scan_result = [ kind |-> "none" ]
        /\ failed_lookups = 0
        /\ response.kind # "body"
        /\ background_tasks = << >>

\* a scan of three dependencies was cancelled when one lookup had returned a
\* vulnerability, one had failed and one was in flight
C18_Witness ==
    /\ cancel_signal
    /\ scan_pc = "cancelled"
    /\ Len(slots) = 3
    /\ Cardinality(C18_Completed) = 2
    /\ \E i \in 1 .. 3 : slots[i].state = "done" /\ slots[i].vulnerabilities # << >>
    /\ \E i \in 1 .. 3 : slots[i].state = "failed"
    /\ \E i \in 1 .. 3 : slots[i].state = "in_flight"

-----------------------------------------------------------------------------
(* C19 *)

\* C19: a manual scan whose file-type token is unrecognized or has no
\* registered parser is aborted, and manual_scan surfaces the failure to its
\* caller as a client error (a status code from 400 to 499).
C19_ParserFailureIsClientError ==
    /\ scan_pc \in { "raised", "responded" }
    /\ payload.file_type \notin { "requirements.txt", "poetry.lock" }
    => /\ scan_result = [ kind |-> "none" ]
       /\ slots = << >>
       /\ scan_error.type = "ValueError"
       /\ scan_pc = "responded" =>
              /\ response.kind = "HTTPException"
              /\ response.status_code \in 400 .. 499

-----------------------------------------------------------------------------
(* C20 *)

\* C20: manual_scan schedules send_vulnerability_notification with the scan
\* result exactly once when the completed scan's has_vulnerabilities is true
\* and not at all otherwise, and only once scan_dependencies has returned: a
\* scan that raises, or that is still under way, has scheduled nothing.
C20_NotifiedOnceIffVulnerable ==
    /\ background_tasks # << >> =>
           /\ scan_result.kind = "ScanResult"
           /\ scan_pc = "responded"
    /\ scan_error.type # "none" => background_tasks = << >>
    /\ (scan_pc = "responded" /\ response.kind = "body") =>
           IF scan_result.has_vulnerabilities
           THEN background_tasks
                    = << [ task     |-> "send_vulnerability_notification",
                           argument |-> scan_result ] >>
           ELSE background_tasks = << >>

\* manual_scan has answered a scan that found a vulnerability and has
\* scheduled one notification
C20_Witness ==
    /\ scan_pc = "responded"
    /\ response.kind = "body"
    /\ response.vulnerabilities_count = 1
    /\ Len(background_tasks) = 1
    /\ background_tasks[1].argument.has_vulnerabilities

-----------------------------------------------------------------------------
(* C23 *)

\* C23: no dependency the requirements.txt parser emits has a name that
\* starts with '-'; a pip option line never becomes a dependency.
C23_NoOptionBecomesDependency ==
    \A i \in 1 .. Len(dependencies) :
        ~StartsWith(dependencies[i].name, << "-" >>)

-----------------------------------------------------------------------------
(* C22 *)

\* the request carries no API key: it has no X-API-Key header, or an empty one
C22_NoKey == x_api_key = NoneValue \/ x_api_key.value = ""

\* the request has been answered by the API-key check, and no scan work was
\* done for it
C22_RejectedBeforeScan(status_code) ==
    /\ scan_pc = "rejected"
    /\ response.kind = "HTTPException"
    /\ response.status_code = status_code
    /\ payload = NoneValue
    /\ parsed = << >>
    /\ unique = << >>
    /\ slots = << >>
    /\ scan_result = NoneValue
    /\ background_tasks = << >>

\* C22: a manual-scan request gets past the API-key check only if its
\* X-API-Key header equals the configured API_KEY; a request without a key is
\* answered 401 and one with a key that does not match 403, both before any
\* scan work starts.
C22_ScanOnlyWithApiKey ==
    scan_pc # "idle" =>
        /\ scan_pc # "rejected" => x_api_key = API_KEY
        /\ C22_NoKey => C22_RejectedBeforeScan(401)
        /\ ~C22_NoKey /\ x_api_key # API_KEY => C22_RejectedBeforeScan(403)

\* a request with a key that is not the configured one has been answered 403
C22_Witness ==
    /\ scan_pc = "rejected"
    /\ ~C22_NoKey
    /\ x_api_key # API_KEY
    /\ response.status_code = 403

-----------------------------------------------------------------------------
(* C21 *)

\* the request has no signature header, or an empty one
C21_Missing ==
    x_hub_signature_256 = NoneValue \/ x_hub_signature_256.value = << >>

\* the header is "sha256=" followed by the HMAC-SHA256 hex digest of the raw
\* body under the configured secret
C21_Matches ==
    /\ ~C21_Missing
    /\ StartsWith(x_hub_signature_256.value, Sha256Prefix)
    /\ From(x_hub_signature_256.value, Len(Sha256Prefix) + 1)
           = hexdigest(GITHUB_WEBHOOK_SECRET.value, request_body)

\* C21: verify_github_webhook returns True only for a header that is present,
\* starts with "sha256=" and continues with the HMAC-SHA256 hex digest of the
\* raw body under the webhook secret; a missing header is rejected with 401
\* "X-Hub-Signature-256 header is missing", a malformed or non-matching
\* signature with 403.
C21_SignatureVerified ==
    hook_pc = "done" =>
        /\ hook_out.kind = "return" => C21_Matches
        /\ C21_Missing =>
               hook_out = HTTPException(401, "X-Hub-Signature-256 header is missing")
        /\ ~C21_Missing /\ ~C21_Matches =>
               hook_out.kind = "HTTPException" /\ hook_out.status_code = 403

-----------------------------------------------------------------------------
(* C24 *)

\* Settings() has validated every field
C24_Done == next_field = Len(SettingsFields) + 1

\* the notification method in force: the one provided, else the default
C24_Method ==
    IF environ["NOTIFICATION_METHOD"] = NoneValue
    THEN "email"
    ELSE environ["NOTIFICATION_METHOD"].value

\* the settings the method requires
C24_Required ==
    (IF C24_Method \in { "email", "all" }
     THEN { "SMTP_SERVER", "SMTP_PORT", "SMTP_USERNAME", "SMTP_PASSWORD", "EMAIL_FROM",
            "EMAIL_TO" }
     ELSE { })
    \cup (IF C24_Method \in { "slack", "all" } THEN { "SLACK_WEBHOOK_URL" } ELSE { })
    \cup (IF C24_Method \in { "discord", "all" } THEN { "DISCORD_WEBHOOK_URL" } ELSE { })

\* C24: Settings validation accepts a notification method exactly when the
\* settings the method requires are provided: email (or all) needs SMTP_SERVER,
\* SMTP_PORT, SMTP_USERNAME, SMTP_PASSWORD, EMAIL_FROM and EMAIL_TO, slack (or
\* all) needs SLACK_WEBHOOK_URL, discord (or all) needs DISCORD_WEBHOOK_URL.
C24_MethodAcceptedIffConfigured ==
    C24_Done /\ C24_Method \in NotificationMethod =>
        (field_errors = { } <=> \A f \in C24_Required : environ[f] # NoneValue)

-----------------------------------------------------------------------------
(* C25 *)

\* the answered register requests that carried the email
C25_Answered(email) ==
    { r \in Requests : sessions[r].pc = "done" /\ sessions[r].email = email }

\* the requests among them that created a user
C25_Created(email) ==
    { r \in C25_Answered(email) : sessions[r].response.kind = "return" }

\* the rows of table "users" with the email
C25_Rows(email) == { i \in 1 .. Len(users) : users[i].email = email }

\* C25: of the register requests that carry the same email, whatever their
\* interleaving, exactly one creates a user, and every other one is answered
\* 400 "Email already registered" and creates none.
C25_OneRegistrationPerEmail ==
    \A email \in Emails :
        /\ Cardinality(C25_Rows(email)) = Cardinality(C25_Created(email))
        /\ C25_Answered(email) # { } => Cardinality(C25_Created(email)) = 1
        /\ \A r \in C25_Answered(email) \ C25_Created(email) :
               sessions[r].response = HTTPException(400, "Email already registered")

=============================================================================
